---- MODULE Spec2Model ----
(***************************************************************************)
(* justgpt-control-plane: the project registry (storage.ts), the           *)
(* control-plane API (index.ts, validate.ts) and the deploy agent          *)
(* (agent.ts, latest variant: POST /deploy).                                *)
(*                                                                         *)
(* Strings the code computes on (ids, env names, mount paths) are          *)
(* sequences of one-character strings; JavaScript values that may be       *)
(* null or undefined are records tagged with their typeof.                 *)
(***************************************************************************)
EXTENDS Integers, Sequences, FiniteSets, TLC

VARIABLES
  dbFile,      \* the registry file DATA_FILE: missing, empty, or a saved Db
  now,         \* the wall clock read by nowIso()
  calls,       \* number of requests / library calls made so far
  ret,         \* value returned by the last storage call
  wrote,       \* TRUE iff the last operation called saveDb
  agentToken,  \* env.AGENT_TOKEN of the control plane: configured or not
  cp,          \* control plane: the deploy request in flight (at its await)
  cpReply,     \* control plane: the last HTTP reply sent
  lastOp,      \* history: the last operation performed and its arguments
  apc,         \* agent: position of the provisioning run in POST /deploy
  areq,        \* agent: the request being served (parsed body and derived values)
  payload,     \* agent: deploy/data/<id>.json per project id
  meta,        \* agent: deploy/data/<id>.source.json per project id
  descProject, \* agent: deploy/projects/<id>.yml per project id
  descCompose, \* agent: deploy/docker-compose.nginx.<id>.yml per project id
  envFile,     \* agent: the shared environment file MCP_ENV_FILE
  nginxSite,   \* agent: the proxy configuration file NGINX_SITE
  nginxLive,   \* the configuration the running proxy process has loaded
  containers,  \* ids whose container group has been brought up
  tokens,      \* number of tokens randToken has produced
  dataDir,     \* agent: whether deploy/data exists
  trace,       \* history: the steps executed by the current (or last) run
  result,      \* agent: the last HTTP reply of POST /deploy
  prevRun,     \* history: request and outcome of the run before this one
  tmpFile,     \* the temporary file DATA_FILE + ".tmp" that saveDb writes
  sv,          \* saveDb in progress: its position, the content before and the content to save
  parked       \* agent: the runs suspended at their await, and the runs that returned ok

storeVars == <<dbFile, now, calls, ret, wrote>>
cpVars == <<agentToken, cp, cpReply>>
fsVars == <<payload, meta, descProject, descCompose, envFile, nginxSite, nginxLive, containers, tokens, dataDir>>
agentVars == <<apc, areq, fsVars, trace, result, prevRun>>
saveVars == <<tmpFile, sv>>
vars == <<dbFile, now, calls, ret, wrote, lastOp, agentToken, cp, cpReply, agentVars, saveVars, parked>>

-----------------------------------------------------------------------------
(* Bounds *)

MaxClock == 2
MaxCalls == 3
MaxRuns == 2

-----------------------------------------------------------------------------
(* JavaScript values *)

JNull == [t |-> "null"]
JUndef == [t |-> "undefined"]
JNum(n) == [t |-> "number", v |-> n]
JBool(b) == [t |-> "boolean", v |-> b]
JStr(s) == [t |-> "string", v |-> s]

\* a ?? b
Coalesce(a, b) == IF a.t \in {"null", "undefined"} THEN b ELSE a

-----------------------------------------------------------------------------
(* Strings as sequences of characters *)

Lower == {"a", "b"}
Digit == {"1"}

UpperChar(c) == CASE c = "a" -> "A" [] c = "b" -> "B" [] OTHER -> c

toUpperCase(s) == [i \in 1..Len(s) |-> UpperChar(s[i])]

IsSpace(c) == c = " "

RECURSIVE trimStart(_)
trimStart(s) ==
  IF s # <<>> /\ IsSpace(Head(s)) THEN trimStart(Tail(s)) ELSE s

RECURSIVE trimEnd(_)
trimEnd(s) ==
  IF s # <<>> /\ IsSpace(s[Len(s)]) THEN trimEnd(SubSeq(s, 1, Len(s) - 1)) ELSE s

trim(s) == trimEnd(trimStart(s))

\* /^[a-z0-9][a-z0-9_-]*$/
IdPattern(v) ==
  /\ v # <<>>
  /\ v[1] \in Lower \cup Digit
  /\ \A i \in 1..Len(v) : v[i] \in Lower \cup Digit \cup {"_", "-"}

\* .replace(/[^A-Z0-9]+/g, "_"): every maximal run of other characters
\* becomes one underscore
RECURSIVE replaceRuns(_, _)
replaceRuns(s, inRun) ==
  IF s = <<>> THEN <<>>
  ELSE IF Head(s) \in {"A", "B"} \cup Digit
       THEN <<Head(s)>> \o replaceRuns(Tail(s), FALSE)
       ELSE IF inRun THEN replaceRuns(Tail(s), TRUE)
            ELSE <<"_">> \o replaceRuns(Tail(s), TRUE)

tokenEnvForProjectId(id) ==
  <<"M", "C", "P", "_">> \o replaceRuns(toUpperCase(id), FALSE)
    \o <<"_", "B", "E", "A", "R", "E", "R", "_", "T", "O", "K", "E", "N">>

\* validateProjectId: throws (ok = FALSE) or returns the trimmed id
validateProjectId(id) ==
  LET v == trim(id) IN
  IF v = <<>> THEN [ok |-> FALSE, v |-> v]
  ELSE IF ~IdPattern(v) THEN [ok |-> FALSE, v |-> v]
  ELSE [ok |-> TRUE, v |-> v]

\* `/p/${id}/mcp`
DefaultPath(id) == <<"/", "p", "/">> \o id \o <<"/", "m", "c", "p">>

-----------------------------------------------------------------------------
(* storage.ts: the registry *)

nowIso == now

defaultDb == [projects |-> <<>>]

Missing == [kind |-> "missing"]
EmptyFile == [kind |-> "empty"]

loadDb(file) ==
  IF file.kind = "missing" THEN defaultDb
  ELSE IF file.kind = "empty" THEN defaultDb
  ELSE [projects |-> file.projects]

saveDb(db) == [kind |-> "db", projects |-> db.projects]

\* Array.prototype.find on the id: index of the first match, 0 when none
FindIndex(projects, id) ==
  IF \E i \in 1..Len(projects) : projects[i].id = id
  THEN CHOOSE i \in 1..Len(projects) :
         /\ projects[i].id = id
         /\ \A j \in 1..(i - 1) : projects[j].id # id
  ELSE 0

\* Faulty variants of upsertProject, used to show that the registry claims
\* depend on its body.
\* (a) an update rebuilds the record from the defaults of a new one
upsertProject_Rebuild(file, p, t) ==
  LET db == loadDb(file)
      i == FindIndex(db.projects, p.id)
      created == [id |-> p.id, type |-> p.type, mcpPath |-> p.mcpPath,
                  tokenEnv |-> p.tokenEnv, createdAt |-> t, status |-> "draft",
                  lastDeployAt |-> JNull, hostPort |-> JNull, nginxChanged |-> JNull,
                  jsonInline |-> Coalesce(p.jsonInline, JNull),
                  jsonUrl |-> Coalesce(p.jsonUrl, JNull)]
  IN [file |-> saveDb([projects |-> IF i # 0 THEN [db.projects EXCEPT ![i] = created]
                                    ELSE Append(db.projects, created)]),
      ret |-> created, saved |-> TRUE]

\* (b) an update forgets the deploy result of the record
upsertProject_DropsDeployResult(file, p, t) ==
  LET db == loadDb(file)
      i == FindIndex(db.projects, p.id)
      created == [id |-> p.id, type |-> p.type, mcpPath |-> p.mcpPath,
                  tokenEnv |-> p.tokenEnv, createdAt |-> t, status |-> "draft",
                  lastDeployAt |-> JNull, hostPort |-> JNull, nginxChanged |-> JNull,
                  jsonInline |-> Coalesce(p.jsonInline, JNull),
                  jsonUrl |-> Coalesce(p.jsonUrl, JNull)]
      updated == IF i # 0
                 THEN [db.projects[i] EXCEPT
                         !.type = p.type, !.mcpPath = p.mcpPath, !.tokenEnv = p.tokenEnv,
                         !.hostPort = JNull, !.nginxChanged = JNull]
                 ELSE created
  IN [file |-> saveDb([projects |-> IF i # 0 THEN [db.projects EXCEPT ![i] = updated]
                                    ELSE Append(db.projects, created)]),
      ret |-> updated, saved |-> TRUE]

\* (c) no lookup: every call appends
upsertProject_AlwaysPush(file, p, t) ==
  LET db == loadDb(file)
      created == [id |-> p.id, type |-> p.type, mcpPath |-> p.mcpPath,
                  tokenEnv |-> p.tokenEnv, createdAt |-> t, status |-> "draft",
                  lastDeployAt |-> JNull, hostPort |-> JNull, nginxChanged |-> JNull,
                  jsonInline |-> Coalesce(p.jsonInline, JNull),
                  jsonUrl |-> Coalesce(p.jsonUrl, JNull)]
  IN [file |-> saveDb([projects |-> Append(db.projects, created)]),
      ret |-> created, saved |-> TRUE]

upsertProject(file, p, t) ==
  LET db == loadDb(file)
      i == FindIndex(db.projects, p.id)
  IN
  IF i # 0
  THEN LET existing == db.projects[i]
           updated == [existing EXCEPT
                         !.type = p.type,
                         !.mcpPath = p.mcpPath,
                         !.tokenEnv = p.tokenEnv,
                         !.jsonInline = Coalesce(p.jsonInline, Coalesce(existing.jsonInline, JNull)),
                         !.jsonUrl = Coalesce(p.jsonUrl, Coalesce(existing.jsonUrl, JNull))]
       IN [file |-> saveDb([projects |-> [db.projects EXCEPT ![i] = updated]]),
           ret |-> updated,
           saved |-> TRUE]
  ELSE LET created == [id |-> p.id,
                       type |-> p.type,
                       mcpPath |-> p.mcpPath,
                       tokenEnv |-> p.tokenEnv,
                       createdAt |-> t,
                       status |-> "draft",
                       lastDeployAt |-> JNull,
                       hostPort |-> JNull,
                       nginxChanged |-> JNull,
                       jsonInline |-> Coalesce(p.jsonInline, JNull),
                       jsonUrl |-> Coalesce(p.jsonUrl, JNull)]
       IN [file |-> saveDb([projects |-> Append(db.projects, created)]),
           ret |-> created,
           saved |-> TRUE]

\* Faulty variants of markDeployed.
\* (a) an unknown id is saved back (and the file created) instead of
\*     returning early
markDeployed_SavesWhenAbsent(file, id, info, t) ==
  LET db == loadDb(file)
      i == FindIndex(db.projects, id)
  IN
  IF i = 0 THEN [file |-> saveDb(db), ret |-> JNull, saved |-> TRUE]
  ELSE LET p == db.projects[i]
           q == [p EXCEPT
                   !.status = "deployed",
                   !.lastDeployAt = JNum(t),
                   !.hostPort = IF info.hostPort.t = "number" THEN info.hostPort ELSE @,
                   !.nginxChanged = IF info.nginxChanged.t = "boolean" THEN info.nginxChanged ELSE @]
       IN [file |-> saveDb([projects |-> [db.projects EXCEPT ![i] = q]]),
           ret |-> q, saved |-> TRUE]

\* (b) the supplied values are stored as given, null included
markDeployed_StoresNull(file, id, info, t) ==
  LET db == loadDb(file)
      i == FindIndex(db.projects, id)
  IN
  IF i = 0 THEN [file |-> file, ret |-> JNull, saved |-> FALSE]
  ELSE LET p == db.projects[i]
           q == [p EXCEPT
                   !.status = "deployed",
                   !.lastDeployAt = JNum(t),
                   !.hostPort = Coalesce(info.hostPort, JNull),
                   !.nginxChanged = Coalesce(info.nginxChanged, JNull)]
       IN [file |-> saveDb([projects |-> [db.projects EXCEPT ![i] = q]]),
           ret |-> q, saved |-> TRUE]

markDeployed(file, id, info, t) ==
  LET db == loadDb(file)
      i == FindIndex(db.projects, id)
  IN
  IF i = 0 THEN [file |-> file, ret |-> JNull, saved |-> FALSE]
  ELSE LET p == db.projects[i]
           q == [p EXCEPT
                   !.status = "deployed",
                   !.lastDeployAt = JNum(t),
                   !.hostPort = IF info.hostPort.t = "number" THEN info.hostPort ELSE @,
                   !.nginxChanged = IF info.nginxChanged.t = "boolean" THEN info.nginxChanged ELSE @]
       IN [file |-> saveDb([projects |-> [db.projects EXCEPT ![i] = q]]),
           ret |-> q,
           saved |-> TRUE]

-----------------------------------------------------------------------------
(* agent.ts: text files edited by the deploy agent *)

JSON_MAX_BYTES == 2000000

\* Fastify({ logger: true }): no bodyLimit is given, so the server refuses a
\* request body above Fastify's default of 1 MiB before the handler runs
BODY_LIMIT == 1048576

\* The shared environment file MCP_ENV_FILE.  Its text is kept as the
\* result of split(/\r?\n/): a text with n newlines is n + 1 lines, the
\* last one empty when the text ends in a newline.
KV(key, value) == [kind |-> "kv", k |-> key, v |-> value]
BlankLine == [kind |-> "blank", k |-> <<>>, v |-> <<>>]
CommentLine == [kind |-> "comment", k |-> <<>>, v |-> <<>>]

EnvNoFile == [exists |-> FALSE, lines |-> <<>>]
EnvText(lines) == [exists |-> TRUE, lines |-> lines]

\* fs.existsSync(file) ? fs.readFileSync(file, "utf8") : "", then split
EnvLines(file) == IF file.exists THEN file.lines ELSE <<BlankLine>>

\* l.startsWith(key + "=")
StartsWithKey(l, key) == l.kind = "kv" /\ l.k = key

\* Faulty variant: the file is rewritten with the one line only
ensureEnvLine_OnlyKey(file, key, value) ==
  EnvText(<<KV(key, value), BlankLine>>)
ensureEnvLine(file, key, value) ==
  LET lines == EnvLines(file)
      found == \E i \in 1..Len(lines) : StartsWithKey(lines[i], key)
      mapped == [i \in 1..Len(lines) |->
                   IF StartsWithKey(lines[i], key) THEN KV(key, value) ELSE lines[i]]
      filtered == IF mapped[Len(mapped)] = BlankLine
                  THEN SubSeq(mapped, 1, Len(mapped) - 1)
                  ELSE mapped
      out == IF found THEN filtered ELSE Append(filtered, KV(key, value))
  IN EnvText(Append(out, BlankLine))

RECURSIVE FirstValue(_, _)
FirstValue(lines, key) ==
  IF lines = <<>> THEN JNull
  ELSE IF Head(lines).kind \in {"blank", "comment"} THEN FirstValue(Tail(lines), key)
  ELSE IF ~StartsWithKey(Head(lines), key) THEN FirstValue(Tail(lines), key)
  ELSE JStr(trim(Head(lines).v))

readEnvValue(file, key) ==
  IF ~file.exists THEN JNull ELSE FirstValue(file.lines, key)

\* truthiness of a string-or-null value
Truthy(x) == x.t = "string" /\ x.v # <<>>

\* The proxy configuration NGINX_SITE, as the sequence of its units: the
\* lines the patcher searches for, and the location blocks it inserts.
ServerOpen == [kind |-> "server"]
ServerClose == [kind |-> "close"]
ServerName(n) == [kind |-> "server_name", name |-> n]
Anchor == [kind |-> "anchor"]
Loc(path, port) == [kind |-> "loc", path |-> path, port |-> port]

\* raw.indexOf(needle, from): first position >= from, 0 when none
IndexOfUnit(raw, unit, from) ==
  IF \E i \in from..Len(raw) : raw[i] = unit
  THEN CHOOSE i \in from..Len(raw) :
         raw[i] = unit /\ \A j \in from..(i - 1) : raw[j] # unit
  ELSE 0

\* raw.includes(`    location = ${mcpPath} {`)
HasLocLine(raw, mcpPath) ==
  \E i \in 1..Len(raw) : raw[i].kind = "loc" /\ raw[i].path = mcpPath

\* Faulty variant: the block is inserted without looking for the location
\* line first
ensureMcpNginxRoute_NoLookup(raw, mcpPath, hostPort) ==
  LET mcpPos == IndexOfUnit(raw, ServerName("mcp"), 1) IN
  IF mcpPos = 0 THEN [err |-> TRUE, changed |-> FALSE, out |-> raw]
  ELSE LET insPos == IndexOfUnit(raw, Anchor, mcpPos) IN
       IF insPos = 0 THEN [err |-> TRUE, changed |-> FALSE, out |-> raw]
       ELSE [err |-> FALSE, changed |-> TRUE,
             out |-> SubSeq(raw, 1, insPos - 1) \o <<Loc(mcpPath, hostPort)>>
                       \o SubSeq(raw, insPos, Len(raw))]
\* returns the new file text, whether it changed, and whether it threw
ensureMcpNginxRoute(raw, mcpPath, hostPort) ==
  IF HasLocLine(raw, mcpPath) THEN [err |-> FALSE, changed |-> FALSE, out |-> raw]
  ELSE LET mcpPos == IndexOfUnit(raw, ServerName("mcp"), 1) IN
       IF mcpPos = 0 THEN [err |-> TRUE, changed |-> FALSE, out |-> raw]
       ELSE LET insPos == IndexOfUnit(raw, Anchor, mcpPos) IN
            IF insPos = 0 THEN [err |-> TRUE, changed |-> FALSE, out |-> raw]
            ELSE [err |-> FALSE, changed |-> TRUE,
                  out |-> SubSeq(raw, 1, insPos - 1) \o <<Loc(mcpPath, hostPort)>>
                            \o SubSeq(raw, insPos, Len(raw))]

\* The composition descriptor, as the sequence of its port mappings
Mapping(loopback, port, inner) == [loopback |-> loopback, port |-> port, inner |-> inner]

\* /127\.0\.0\.1:(19\d{3}):8080/
MatchesPortPattern(m) ==
  m.loopback /\ m.port >= 19000 /\ m.port <= 19999 /\ m.inner = 8080

\* raw.match(...): the first match; JNull when the code throws
readHostPortFromCompose(raw) ==
  IF \E i \in 1..Len(raw) : MatchesPortPattern(raw[i])
  THEN LET i == CHOOSE i \in 1..Len(raw) :
                  MatchesPortPattern(raw[i])
                  /\ \A j \in 1..(i - 1) : ~MatchesPortPattern(raw[j])
       IN JNum(raw[i].port)
  ELSE JNull

\* JSON texts: the document they denote ("invalid" when JSON.parse
\* throws), their size in bytes, and the size of their canonical form
JsonText(doc, bytes, cbytes) == [doc |-> doc, bytes |-> bytes, cbytes |-> cbytes]

\* JSON.stringify(JSON.parse(text), null, 2) + "\n"
Canonical(text) == JsonText(text.doc, text.cbytes, text.cbytes)

\* "{}\n"
EmptyObjectText == JsonText("empty", 3, 3)

sha256Hex(text) == <<"sha256", text.doc, text.bytes>>

NoFile == [exists |-> FALSE]
File(content) == [exists |-> TRUE, content |-> content]

-----------------------------------------------------------------------------
(* Inputs of the library-level calls *)

IdA == <<"a">>
IdAB == <<"a", "-", "b">>
StoreIds == {IdA, IdAB}

CustomPath == <<"/", "x">>
OtherEnv == <<"X">>

\* the Omit<Project, ...> argument of upsertProject
UpsertInputs ==
  UNION {
    { [id |-> id, type |-> "json", mcpPath |-> DefaultPath(id),
       tokenEnv |-> tokenEnvForProjectId(id), jsonInline |-> JUndef, jsonUrl |-> JUndef],
      [id |-> id, type |-> "openapi", mcpPath |-> CustomPath,
       tokenEnv |-> OtherEnv, jsonInline |-> JNull, jsonUrl |-> JStr("u")],
      [id |-> id, type |-> "postgres", mcpPath |-> DefaultPath(id),
       tokenEnv |-> tokenEnvForProjectId(id), jsonInline |-> JStr("j"), jsonUrl |-> JNull],
      [id |-> id, type |-> "mysql", mcpPath |-> CustomPath,
       tokenEnv |-> tokenEnvForProjectId(id), jsonInline |-> JUndef, jsonUrl |-> JUndef] }
    : id \in StoreIds }

\* the optional info argument of markDeployed; an omitted info reads as
\* undefined in both fields
InfoOmitted == [hostPort |-> JUndef, nginxChanged |-> JUndef]
MarkInfos ==
  { InfoOmitted,
    [hostPort |-> JNum(19001), nginxChanged |-> JBool(TRUE)],
    [hostPort |-> JNum(19002), nginxChanged |-> JBool(FALSE)],
    [hostPort |-> JNull, nginxChanged |-> JNull],
    [hostPort |-> JNum(19001), nginxChanged |-> JUndef] }

Projects == loadDb(dbFile).projects
Has(projects, id) == FindIndex(projects, id) # 0

NoOp == [op |-> "none"]
NoSave == [pc |-> "idle", old |-> Missing, new |-> Missing]
CpIdle == [pc |-> "idle"]
NoReply == [code |-> 0]

StoreInit ==
  /\ dbFile \in {Missing, EmptyFile}
  /\ now = 0
  /\ calls = 0
  /\ ret = JUndef
  /\ wrote = FALSE
  /\ lastOp = NoOp
  /\ tmpFile = Missing
  /\ sv = NoSave

CpInit ==
  /\ cp = CpIdle
  /\ cpReply = NoReply

-----------------------------------------------------------------------------
(* agent.ts: POST /deploy, one action per step of the handler *)

FsIds == {IdA, IdAB}

\* randToken(): a fresh value each time
Tok(n) == <<"t", CASE n = 1 -> "1" [] n = 2 -> "2" [] n = 3 -> "3" [] n = 4 -> "4" [] OTHER -> "5">>

NoReq == [body |-> [id |-> <<>>]]
NoResult == [ok |-> FALSE, code |-> 0, failedAt |-> "none"]
NoRun == [ran |-> FALSE]

\* the files a later run is compared with
Snapshot ==
  [payload |-> payload, meta |-> meta, envFile |-> envFile, nginxSite |-> nginxSite,
   descProject |-> descProject, descCompose |-> descCompose]

AgentIdle == apc \in {"idle", "done", "failed"}
NoParked == [susp |-> {}, oks |-> {}]

\* the order of the steps in the handler: the step that follows each one
AfterStep_UpBeforeCredential(step) ==
  CASE step = "pull" -> "source"
    [] step = "source" -> "generator"
    [] step = "generator" -> "up"
    [] step = "up" -> "credential"
    [] step = "credential" -> "port"
    [] step = "port" -> "route"
    [] step = "route" -> "validate"
    [] step = "validate" -> "reload"
    [] OTHER -> "done"
AfterStep(step) ==
  CASE step = "pull" -> "source"
    [] step = "source" -> "generator"
    [] step = "generator" -> "credential"
    [] step = "credential" -> "up"
    [] step = "up" -> "port"
    [] step = "port" -> "route"
    [] step = "route" -> "validate"
    [] step = "validate" -> "reload"
    [] OTHER -> "done"

\* reply.code(c); return { error }  or  throw (error handler: statusCode || 500)
Fail(code, step) ==
  /\ apc' = "failed"
  /\ result' = [ok |-> FALSE, code |-> code, failedAt |-> step]

\* Faulty variant: the token is returned whether or not this run made it
Succeed_RevealsAlways(r, changed) ==
  /\ apc' = "done"
  /\ result' = [ok |-> TRUE, code |-> 200, failedAt |-> "none", id |-> r.id, mcpPath |-> r.mcpPath,
                hostPort |-> r.hostPort, tokenEnv |-> r.tokenEnv,
                token |-> r.token,
                nginxChanged |-> changed]
\* return { ok: true, ... }
Succeed(r, changed) ==
  /\ apc' = "done"
  /\ result' = [ok |-> TRUE, code |-> 200, failedAt |-> "none", id |-> r.id, mcpPath |-> r.mcpPath,
                hostPort |-> r.hostPort, tokenEnv |-> r.tokenEnv,
                token |-> IF r.tokenCreated THEN r.token ELSE JNull,
                nginxChanged |-> changed]

\* the request body is at least as long as the inline text it carries
BodyBytes(body) == IF body.jsonInline.t = "string" THEN body.jsonInline.v.text.bytes ELSE 0

\* Faulty variant: a server that accepts a body of any size
AgentReceive_NoBodyLimit(body, authOk) ==
  LET id == trim(body.id)
      path == IF body.mcpPath.t = "string" /\ trim(body.mcpPath.v) # <<>>
              THEN trim(body.mcpPath.v) ELSE DefaultPath(id)
      bodyOk == /\ body.id # <<>>
                /\ body.type \in {"json", "openapi", "postgres", "mysql"}
                /\ body.mcpPath.t = "string" => body.mcpPath.v # <<>>
  IN
  /\ AgentIdle
  /\ trace' = <<>>
  /\ prevRun' = IF apc = "idle" THEN NoRun
                ELSE [ran |-> TRUE, body |-> areq.body, ok |-> result.ok,
                      failedAt |-> result.failedAt, clean |-> areq.clean]
  /\ areq' = [body |-> body, id |-> id, mcpPath |-> path,
              tokenEnv |-> tokenEnvForProjectId(id),
              hdrs |-> [inm |-> JUndef, ims |-> JUndef], metaRead |-> NoFile,
              url |-> JUndef, token |-> JNull, tokenCreated |-> FALSE,
              hostPort |-> JNull, clean |-> TRUE, start |-> Snapshot]
  /\ IF ~authOk THEN Fail(401, "request")
     ELSE IF ~bodyOk THEN Fail(500, "request")
     ELSE IF ~IdPattern(id) THEN Fail(400, "request")
     ELSE apc' = "pull" /\ result' = NoResult
  /\ UNCHANGED fsVars
\* the body limit of the server, then requireAuth, Body.parse, the id check
\* and the derived values
AgentReceive(body, authOk) ==
  LET id == trim(body.id)
      path == IF body.mcpPath.t = "string" /\ trim(body.mcpPath.v) # <<>>
              THEN trim(body.mcpPath.v) ELSE DefaultPath(id)
      bodyOk == /\ body.id # <<>>
                /\ body.type \in {"json", "openapi", "postgres", "mysql"}
                /\ body.mcpPath.t = "string" => body.mcpPath.v # <<>>
  IN
  /\ AgentIdle
  /\ trace' = <<>>
  /\ prevRun' = IF apc = "idle" THEN NoRun
                ELSE [ran |-> TRUE, body |-> areq.body, ok |-> result.ok,
                      failedAt |-> result.failedAt, clean |-> areq.clean]
  /\ areq' = [body |-> body, id |-> id, mcpPath |-> path,
              tokenEnv |-> tokenEnvForProjectId(id),
              hdrs |-> [inm |-> JUndef, ims |-> JUndef], metaRead |-> NoFile,
              url |-> JUndef, token |-> JNull, tokenCreated |-> FALSE,
              hostPort |-> JNull, clean |-> TRUE, start |-> Snapshot]
  /\ IF BodyBytes(body) > BODY_LIMIT THEN Fail(413, "request")
     ELSE IF ~authOk THEN Fail(401, "request")
     ELSE IF ~bodyOk THEN Fail(500, "request")
     ELSE IF ~IdPattern(id) THEN Fail(400, "request")
     ELSE apc' = "pull" /\ result' = NoResult
  /\ UNCHANGED fsVars

\* a request sent to the agent directly; time has passed since the request
\* before (a run reads the clock once)
AgentBeginCall(body, authOk) ==
  /\ calls < MaxRuns
  /\ calls' = calls + 1
  /\ now' = now + 1
  /\ AgentReceive(body, authOk)
  /\ UNCHANGED <<dbFile, ret, wrote, lastOp, cpVars, saveVars, parked>>

\* host("git pull --ff-only")
AgentPull ==
  /\ apc = "pull"
  /\ trace' = Append(trace, "pull")
  /\ \E ok \in BOOLEAN :
       IF ok THEN apc' = AfterStep("pull") /\ UNCHANGED <<result, areq>>
       ELSE Fail(500, "pull") /\ areq' = [areq EXCEPT !.clean = FALSE]
  /\ UNCHANGED <<fsVars, prevRun, storeVars, lastOp, cpVars, saveVars, parked>>

\* Faulty variant: the size and digest of the empty object are recorded
\* whatever text was written
NewMeta_EmptyDigest(url, t, out, etag, lastModified, source) ==
  [url |-> url, fetchedAt |-> t, status |-> 200, bytes |-> EmptyObjectText.bytes,
   sha256 |-> sha256Hex(EmptyObjectText), etag |-> etag, lastModified |-> lastModified,
   source |-> source]
NewMeta(url, t, out, etag, lastModified, source) ==
  [url |-> url, fetchedAt |-> t, status |-> 200, bytes |-> out.bytes,
   sha256 |-> sha256Hex(out), etag |-> etag, lastModified |-> lastModified,
   source |-> source]

\* Faulty variant: inline content, when given, wins over the URL
AgentSource_InlineFirst ==
  /\ apc = "source"
  /\ UNCHANGED <<descProject, descCompose, envFile, nginxSite, nginxLive, containers, tokens,
                 prevRun, storeVars, lastOp, cpVars, saveVars, parked>>
  /\ IF areq.body.type # "json"
     THEN /\ apc' = AfterStep("source")
          /\ UNCHANGED <<trace, result, areq, payload, meta, dataDir>>
     ELSE
       /\ dataDir' = TRUE
       /\ LET ju == areq.body.jsonUrl
              ji == areq.body.jsonInline
              id == areq.id
          IN
          IF ju.t = "string" /\ ~ju.v.blank /\ ~(ji.t = "string" /\ ~ji.v.blank)
          THEN \* URL source
            /\ UNCHANGED <<payload, meta>>
            /\ IF ju.v.protocol = "invalid"
               THEN /\ Fail(400, "source") /\ trace' = Append(trace, "source")
                    /\ UNCHANGED areq
               ELSE IF ju.v.protocol \notin {"https", "http"}
               THEN /\ Fail(400, "source") /\ trace' = Append(trace, "source")
                    /\ UNCHANGED areq
               ELSE LET m == meta[id]
                        same == m.exists /\ m.content.url = JStr(ju.v.norm)
                        hdrs == [inm |-> IF same /\ Truthy(m.content.etag)
                                         THEN m.content.etag ELSE JUndef,
                                 ims |-> IF same /\ Truthy(m.content.lastModified)
                                         THEN m.content.lastModified ELSE JUndef]
                    IN /\ apc' = "fetching"
                       /\ trace' = trace \o <<"source", "fetch">>
                       /\ areq' = [areq EXCEPT !.hdrs = hdrs, !.metaRead = m,
                                               !.url = JStr(ju.v.norm)]
                       /\ UNCHANGED result
          ELSE IF ji.t = "string" /\ ~ji.v.blank
          THEN \* inline source
            /\ trace' = Append(trace, "source")
            /\ UNCHANGED areq
            /\ IF ji.v.text.doc = "invalid"
               THEN Fail(400, "source") /\ UNCHANGED <<payload, meta>>
               ELSE LET out == Canonical(ji.v.text) IN
                    IF out.bytes > JSON_MAX_BYTES
                    THEN Fail(413, "source") /\ UNCHANGED <<payload, meta>>
                    ELSE /\ payload' = [payload EXCEPT ![id] = File(out)]
                         /\ meta' = [meta EXCEPT ![id] =
                                       File(NewMeta(JNull, now, out, JUndef, JUndef, JStr("inline")))]
                         /\ apc' = AfterStep("source")
                         /\ UNCHANGED result
          ELSE \* keep the existing payload, or create the empty object
            /\ trace' = Append(trace, "source")
            /\ apc' = AfterStep("source")
            /\ UNCHANGED <<areq, result>>
            /\ IF ~payload[id].exists
               THEN /\ payload' = [payload EXCEPT ![id] = File(EmptyObjectText)]
                    /\ meta' = [meta EXCEPT ![id] =
                                  File(NewMeta(JNull, now, EmptyObjectText, JUndef, JUndef,
                                               JStr("empty")))]
               ELSE UNCHANGED <<payload, meta>>
\* the source resolver up to its await: mkdir -p, then the URL branch as far
\* as sending the request, or the whole inline / keep / empty branch
AgentSource ==
  /\ apc = "source"
  /\ UNCHANGED <<descProject, descCompose, envFile, nginxSite, nginxLive, containers, tokens,
                 prevRun, storeVars, lastOp, cpVars, saveVars, parked>>
  /\ IF areq.body.type # "json"
     THEN /\ apc' = AfterStep("source")
          /\ UNCHANGED <<trace, result, areq, payload, meta, dataDir>>
     ELSE
       /\ dataDir' = TRUE
       /\ LET ju == areq.body.jsonUrl
              ji == areq.body.jsonInline
              id == areq.id
          IN
          IF ju.t = "string" /\ ~ju.v.blank
          THEN \* URL source
            /\ UNCHANGED <<payload, meta>>
            /\ IF ju.v.protocol = "invalid"
               THEN /\ Fail(400, "source") /\ trace' = Append(trace, "source")
                    /\ UNCHANGED areq
               ELSE IF ju.v.protocol \notin {"https", "http"}
               THEN /\ Fail(400, "source") /\ trace' = Append(trace, "source")
                    /\ UNCHANGED areq
               ELSE LET m == meta[id]
                        same == m.exists /\ m.content.url = JStr(ju.v.norm)
                        hdrs == [inm |-> IF same /\ Truthy(m.content.etag)
                                         THEN m.content.etag ELSE JUndef,
                                 ims |-> IF same /\ Truthy(m.content.lastModified)
                                         THEN m.content.lastModified ELSE JUndef]
                    IN /\ apc' = "fetching"
                       /\ trace' = trace \o <<"source", "fetch">>
                       /\ areq' = [areq EXCEPT !.hdrs = hdrs, !.metaRead = m,
                                               !.url = JStr(ju.v.norm)]
                       /\ UNCHANGED result
          ELSE IF ji.t = "string" /\ ~ji.v.blank
          THEN \* inline source
            /\ trace' = Append(trace, "source")
            /\ UNCHANGED areq
            /\ IF ji.v.text.doc = "invalid"
               THEN Fail(400, "source") /\ UNCHANGED <<payload, meta>>
               ELSE LET out == Canonical(ji.v.text) IN
                    IF out.bytes > JSON_MAX_BYTES
                    THEN Fail(413, "source") /\ UNCHANGED <<payload, meta>>
                    ELSE /\ payload' = [payload EXCEPT ![id] = File(out)]
                         /\ meta' = [meta EXCEPT ![id] =
                                       File(NewMeta(JNull, now, out, JUndef, JUndef, JStr("inline")))]
                         /\ apc' = AfterStep("source")
                         /\ UNCHANGED result
          ELSE \* keep the existing payload, or create the empty object
            /\ trace' = Append(trace, "source")
            /\ apc' = AfterStep("source")
            /\ UNCHANGED <<areq, result>>
            /\ IF ~payload[id].exists
               THEN /\ payload' = [payload EXCEPT ![id] = File(EmptyObjectText)]
                    /\ meta' = [meta EXCEPT ![id] =
                                  File(NewMeta(JNull, now, EmptyObjectText, JUndef, JUndef,
                                               JStr("empty")))]
               ELSE UNCHANGED <<payload, meta>>

\* what the remote end may answer to the GET
Response(throws, status, text, etag, lastModified) ==
  [throws |-> throws, status |-> status, text |-> text, etag |-> etag,
   lastModified |-> lastModified]

DocText == JsonText("d1", 8, 12)
BadText == JsonText("invalid", 5, 5)
BigText == JsonText("d2", 2000001, 2000001)

RemoteResponses ==
  { Response(TRUE, 0, BadText, JNull, JNull),
    Response(FALSE, 200, DocText, JStr(<<"e">>), JNull),
    Response(FALSE, 200, BadText, JNull, JNull),
    Response(FALSE, 200, BigText, JNull, JNull),
    Response(FALSE, 304, BadText, JStr(<<"e">>), JNull),
    Response(FALSE, 404, BadText, JNull, JNull) }

fetchJsonText(resp) ==
  IF resp.throws THEN [throws |-> TRUE, status |-> 0, text |-> JNull]
  ELSE IF resp.status = 304 THEN [throws |-> FALSE, status |-> 304, text |-> JNull]
  ELSE IF resp.status < 200 \/ resp.status > 299
       THEN [throws |-> FALSE, status |-> resp.status, text |-> JNull]
  ELSE IF resp.text.bytes > JSON_MAX_BYTES
       THEN [throws |-> TRUE, status |-> 0, text |-> JNull]
  ELSE [throws |-> FALSE, status |-> 200, text |-> JStr(resp.text)]

\* Faulty variant: the fetched text is written before it is parsed
AgentFetchReturnCall_WritesFirst(resp) ==
  LET fr == fetchJsonText(resp)
      id == areq.id
      m == areq.metaRead
  IN
  /\ apc = "fetching"
  /\ UNCHANGED <<trace, descProject, descCompose, envFile, nginxSite, nginxLive, containers,
                 tokens, dataDir, prevRun, storeVars, lastOp, cpVars, saveVars, parked>>
  /\ IF fr.throws
     THEN /\ Fail(500, "fetch") /\ areq' = [areq EXCEPT !.clean = FALSE]
          /\ UNCHANGED <<payload, meta>>
     ELSE IF fr.status = 304 /\ payload[id].exists
     THEN /\ meta' = [meta EXCEPT ![id] =
                        File([(IF m.exists THEN m.content
                               ELSE [url |-> JUndef, fetchedAt |-> now, status |-> 304,
                                     bytes |-> JUndef, sha256 |-> JUndef, etag |-> JUndef,
                                     lastModified |-> JUndef, source |-> JUndef])
                              EXCEPT !.url = areq.url, !.fetchedAt = now, !.status = 304])]
          /\ apc' = AfterStep("source")
          /\ UNCHANGED <<payload, areq, result>>
     ELSE IF fr.status = 200 /\ fr.text.t = "string"
     THEN IF fr.text.v.doc = "invalid"
          THEN /\ Fail(400, "fetch") /\ areq' = [areq EXCEPT !.clean = FALSE]
               /\ payload' = [payload EXCEPT ![id] = File(fr.text.v)]
               /\ UNCHANGED meta
          ELSE LET out == Canonical(fr.text.v) IN
               /\ payload' = [payload EXCEPT ![id] = File(out)]
               /\ meta' = [meta EXCEPT ![id] =
                             File(NewMeta(areq.url, now, out, resp.etag, resp.lastModified,
                                          JUndef))]
               /\ apc' = AfterStep("source")
               /\ UNCHANGED <<areq, result>>
     ELSE /\ Fail(502, "fetch") /\ areq' = [areq EXCEPT !.clean = FALSE]
          /\ UNCHANGED <<payload, meta>>
\* the source resolver after its await
AgentFetchReturnCall(resp) ==
  LET fr == fetchJsonText(resp)
      id == areq.id
      m == areq.metaRead
  IN
  /\ apc = "fetching"
  /\ UNCHANGED <<trace, descProject, descCompose, envFile, nginxSite, nginxLive, containers,
                 tokens, dataDir, prevRun, storeVars, lastOp, cpVars, saveVars, parked>>
  /\ IF fr.throws
     THEN /\ Fail(500, "fetch") /\ areq' = [areq EXCEPT !.clean = FALSE]
          /\ UNCHANGED <<payload, meta>>
     ELSE IF fr.status = 304 /\ payload[id].exists
     THEN /\ meta' = [meta EXCEPT ![id] =
                        File([(IF m.exists THEN m.content
                               ELSE [url |-> JUndef, fetchedAt |-> now, status |-> 304,
                                     bytes |-> JUndef, sha256 |-> JUndef, etag |-> JUndef,
                                     lastModified |-> JUndef, source |-> JUndef])
                              EXCEPT !.url = areq.url, !.fetchedAt = now, !.status = 304])]
          /\ apc' = AfterStep("source")
          /\ UNCHANGED <<payload, areq, result>>
     ELSE IF fr.status = 200 /\ fr.text.t = "string"
     THEN IF fr.text.v.doc = "invalid"
          THEN /\ Fail(400, "fetch") /\ areq' = [areq EXCEPT !.clean = FALSE]
               /\ UNCHANGED <<payload, meta>>
          ELSE LET out == Canonical(fr.text.v) IN
               /\ payload' = [payload EXCEPT ![id] = File(out)]
               /\ meta' = [meta EXCEPT ![id] =
                             File(NewMeta(areq.url, now, out, resp.etag, resp.lastModified,
                                          JUndef))]
               /\ apc' = AfterStep("source")
               /\ UNCHANGED <<areq, result>>
     ELSE /\ Fail(502, "fetch") /\ areq' = [areq EXCEPT !.clean = FALSE]
          /\ UNCHANGED <<payload, meta>>

AgentFetchReturn == \E resp \in RemoteResponses : AgentFetchReturnCall(resp)

\* what the generator may do: throw, or write some of the two descriptors
GoodCompose == <<Mapping(TRUE, 19001, 8080)>>
NoPortCompose == <<Mapping(FALSE, 19001, 8080)>>
GenOutcomes ==
  { [throws |-> TRUE, project |-> FALSE, compose |-> NoFile],
    [throws |-> FALSE, project |-> TRUE, compose |-> File(GoodCompose)],
    [throws |-> FALSE, project |-> TRUE, compose |-> File(NoPortCompose)],
    [throws |-> FALSE, project |-> TRUE, compose |-> NoFile] }

\* Faulty variant: the generator runs whether or not the descriptors exist
AgentGeneratorCall_Always(g) ==
  LET id == areq.id
      missing == TRUE
      project2 == IF missing /\ ~g.throws /\ g.project THEN TRUE ELSE descProject[id]
      compose2 == IF missing /\ ~g.throws /\ g.compose.exists THEN g.compose ELSE descCompose[id]
  IN
  /\ apc = "generator"
  /\ trace' = IF missing THEN trace \o <<"generator", "init">> ELSE Append(trace, "generator")
  /\ descProject' = [descProject EXCEPT ![id] = project2]
  /\ descCompose' = [descCompose EXCEPT ![id] = compose2]
  /\ IF missing /\ g.throws
     THEN Fail(500, "generator") /\ areq' = [areq EXCEPT !.clean = FALSE]
     ELSE IF ~project2 \/ ~compose2.exists
     THEN Fail(500, "generator") /\ areq' = [areq EXCEPT !.clean = FALSE]
     ELSE apc' = AfterStep("generator") /\ UNCHANGED <<areq, result>>
  /\ UNCHANGED <<payload, meta, envFile, nginxSite, nginxLive, containers, tokens, dataDir,
                 prevRun, storeVars, lastOp, cpVars, saveVars, parked>>
\* mcp-service init only if a descriptor is missing, then the check that
\* both exist
AgentGeneratorCall(g) ==
  LET id == areq.id
      missing == ~descProject[id] \/ ~descCompose[id].exists
      project2 == IF missing /\ ~g.throws /\ g.project THEN TRUE ELSE descProject[id]
      compose2 == IF missing /\ ~g.throws /\ g.compose.exists THEN g.compose ELSE descCompose[id]
  IN
  /\ apc = "generator"
  /\ trace' = IF missing THEN trace \o <<"generator", "init">> ELSE Append(trace, "generator")
  /\ descProject' = [descProject EXCEPT ![id] = project2]
  /\ descCompose' = [descCompose EXCEPT ![id] = compose2]
  /\ IF missing /\ g.throws
     THEN Fail(500, "generator") /\ areq' = [areq EXCEPT !.clean = FALSE]
     ELSE IF ~project2 \/ ~compose2.exists
     THEN Fail(500, "generator") /\ areq' = [areq EXCEPT !.clean = FALSE]
     ELSE apc' = AfterStep("generator") /\ UNCHANGED <<areq, result>>
  /\ UNCHANGED <<payload, meta, envFile, nginxSite, nginxLive, containers, tokens, dataDir,
                 prevRun, storeVars, lastOp, cpVars, saveVars, parked>>

AgentGenerator == \E g \in GenOutcomes : AgentGeneratorCall(g)

\* Faulty variant: a new token on every run, as the earlier agent did
AgentCredential_AlwaysNew ==
  /\ apc = "credential"
  /\ trace' = Append(trace, "credential")
  /\ UNCHANGED <<payload, meta, descProject, descCompose, nginxSite, nginxLive, containers,
                 dataDir, prevRun, storeVars, lastOp, cpVars, saveVars, parked>>
  /\ \E ok \in BOOLEAN :
       IF ok
       THEN LET token == Tok(tokens + 1) IN
            /\ tokens' = tokens + 1
            /\ envFile' = ensureEnvLine(envFile, areq.tokenEnv, token)
            /\ areq' = [areq EXCEPT !.token = JStr(token), !.tokenCreated = TRUE]
            /\ apc' = AfterStep("credential")
            /\ UNCHANGED result
       ELSE /\ Fail(500, "credential") /\ areq' = [areq EXCEPT !.clean = FALSE]
            /\ UNCHANGED <<envFile, tokens>>

\* ensure the token in deploy/.env
AgentCredential ==
  LET existingToken == readEnvValue(envFile, areq.tokenEnv) IN
  /\ apc = "credential"
  /\ trace' = Append(trace, "credential")
  /\ UNCHANGED <<payload, meta, descProject, descCompose, nginxSite, nginxLive, containers,
                 dataDir, prevRun, storeVars, lastOp, cpVars, saveVars, parked>>
  /\ IF Truthy(existingToken)
     THEN /\ areq' = [areq EXCEPT !.token = existingToken, !.tokenCreated = FALSE]
          /\ apc' = AfterStep("credential")
          /\ UNCHANGED <<envFile, tokens, result>>
     ELSE \E ok \in BOOLEAN :
            IF ok
            THEN LET token == Tok(tokens + 1) IN
                 /\ tokens' = tokens + 1
                 /\ envFile' = ensureEnvLine(envFile, areq.tokenEnv, token)
                 /\ areq' = [areq EXCEPT !.token = JStr(token), !.tokenCreated = TRUE]
                 /\ apc' = AfterStep("credential")
                 /\ UNCHANGED result
            ELSE /\ Fail(500, "credential") /\ areq' = [areq EXCEPT !.clean = FALSE]
                 /\ UNCHANGED <<envFile, tokens>>

\* docker compose up -d --build
AgentComposeUp ==
  /\ apc = "up"
  /\ trace' = Append(trace, "up")
  /\ \E ok \in BOOLEAN :
       IF ok THEN /\ containers' = containers \cup {areq.id}
                  /\ apc' = AfterStep("up")
                  /\ UNCHANGED <<areq, result>>
       ELSE /\ Fail(500, "up") /\ areq' = [areq EXCEPT !.clean = FALSE]
            /\ UNCHANGED containers
  /\ UNCHANGED <<payload, meta, descProject, descCompose, envFile, nginxSite, nginxLive,
                 tokens, dataDir, prevRun, storeVars, lastOp, cpVars, saveVars, parked>>

AgentReadPort ==
  LET port == readHostPortFromCompose(descCompose[areq.id].content) IN
  /\ apc = "port"
  /\ trace' = Append(trace, "port")
  /\ IF port.t = "number"
     THEN /\ areq' = [areq EXCEPT !.hostPort = port]
          /\ apc' = AfterStep("port")
          /\ UNCHANGED result
     ELSE Fail(500, "port") /\ UNCHANGED areq
  /\ UNCHANGED <<fsVars, prevRun, storeVars, lastOp, cpVars, saveVars, parked>>

\* Faulty variant: validation and reload follow the patcher whatever it
\* returned
AgentRoute_AlwaysValidates ==
  LET r == ensureMcpNginxRoute(nginxSite, areq.mcpPath, areq.hostPort.v) IN
  /\ apc = "route"
  /\ trace' = Append(trace, "route")
  /\ nginxSite' = r.out
  /\ IF r.err THEN Fail(500, "route")
     ELSE apc' = AfterStep("route") /\ UNCHANGED result
  /\ UNCHANGED <<areq, payload, meta, descProject, descCompose, envFile, nginxLive, containers,
                 tokens, dataDir, prevRun, storeVars, lastOp, cpVars, saveVars, parked>>
AgentRoute ==
  LET r == ensureMcpNginxRoute(nginxSite, areq.mcpPath, areq.hostPort.v) IN
  /\ apc = "route"
  /\ trace' = Append(trace, "route")
  /\ nginxSite' = r.out
  /\ IF r.err THEN Fail(500, "route")
     ELSE IF r.changed THEN apc' = AfterStep("route") /\ UNCHANGED result
     ELSE Succeed(areq, FALSE)
  /\ UNCHANGED <<areq, payload, meta, descProject, descCompose, envFile, nginxLive, containers,
                 tokens, dataDir, prevRun, storeVars, lastOp, cpVars, saveVars, parked>>

\* nginx -t
AgentNginxTest ==
  /\ apc = "validate"
  /\ trace' = Append(trace, "validate")
  /\ \E ok \in BOOLEAN :
       IF ok THEN apc' = AfterStep("validate") /\ UNCHANGED <<areq, result>>
       ELSE Fail(500, "validate") /\ areq' = [areq EXCEPT !.clean = FALSE]
  /\ UNCHANGED <<fsVars, prevRun, storeVars, lastOp, cpVars, saveVars, parked>>

\* nginx -s reload, then the reply
AgentNginxReload ==
  /\ apc = "reload"
  /\ trace' = Append(trace, "reload")
  /\ \E ok \in BOOLEAN :
       IF ok THEN /\ nginxLive' = nginxSite
                  /\ Succeed(areq, TRUE)
                  /\ UNCHANGED areq
       ELSE /\ Fail(500, "reload") /\ areq' = [areq EXCEPT !.clean = FALSE]
            /\ UNCHANGED nginxLive
  /\ UNCHANGED <<payload, meta, descProject, descCompose, envFile, nginxSite, containers,
                 tokens, dataDir, prevRun, storeVars, lastOp, cpVars, saveVars, parked>>

\* Inputs of POST /deploy
Url(protocol, norm) == [blank |-> FALSE, protocol |-> protocol, norm |-> norm]
Inline(text) == [blank |-> FALSE, text |-> text]
\* strings that are empty after trim()
BlankUrl == [blank |-> TRUE, protocol |-> "invalid", norm |-> ""]
BlankInline == [blank |-> TRUE, text |-> JsonText("invalid", 2, 2)]
\* inline content over the limit as supplied, small once re-serialised
PaddedText == JsonText("d4", 2000001, 12)
\* inline content under the limit as supplied, over it once re-serialised
ExpandingText == JsonText("d5", 900000, 2000001)
\* inline content that differs from what the remote end serves
OtherText == JsonText("d3", 6, 9)
Body(id, type, mcpPath, jsonInline, jsonUrl) ==
  [id |-> id, type |-> type, mcpPath |-> mcpPath, jsonInline |-> jsonInline,
   jsonUrl |-> jsonUrl]

AgentBodies ==
  { Body(IdA, "json", JUndef, JUndef, JUndef),
    Body(IdA, "json", JUndef, JStr(Inline(DocText)), JStr(BlankUrl)),
    Body(IdA, "json", JUndef, JStr(Inline(OtherText)), JStr(Url("https", "u1"))),
    Body(IdA, "json", JUndef, JStr(Inline(BadText)), JUndef),
    Body(IdA, "json", JUndef, JUndef, JStr(Url("ftp", "u2"))),
    Body(<<" ", "a">>, "openapi", JStr(CustomPath), JUndef, JUndef),
    Body(IdA, "json", JStr(CustomPath), JNull, JNull),
    Body(IdAB, "json", JUndef, JStr(BlankInline), JUndef),
    Body(<<"A">>, "json", JUndef, JUndef, JUndef),
    Body(IdA, "yaml", JUndef, JUndef, JUndef),
    Body(IdA, "json", JUndef, JStr(Inline(PaddedText)), JUndef),
    Body(IdA, "json", JUndef, JStr(Inline(ExpandingText)), JUndef) }

StandardSite == <<ServerOpen, ServerName("mcp"), Anchor, ServerClose>>
NoAnchorSite == <<ServerOpen, ServerName("mcp"), ServerClose>>

AgentInitWith(env0, site0) ==
  /\ apc = "idle"
  /\ areq = NoReq
  /\ payload = [id \in FsIds |-> NoFile]
  /\ meta = [id \in FsIds |-> NoFile]
  /\ descProject = [id \in FsIds |-> FALSE]
  /\ descCompose = [id \in FsIds |-> NoFile]
  /\ envFile = env0
  /\ nginxSite = site0
  /\ nginxLive = site0
  /\ containers = {}
  /\ tokens = 0
  /\ dataDir = FALSE
  /\ trace = <<>>
  /\ result = NoResult
  /\ prevRun = NoRun
  /\ parked = NoParked

AgentBegin == \E body \in AgentBodies, authOk \in BOOLEAN : AgentBeginCall(body, authOk)

AgentStep ==
  \/ AgentPull
  \/ AgentSource
  \/ AgentFetchReturn
  \/ AgentGenerator
  \/ AgentCredential
  \/ AgentComposeUp
  \/ AgentReadPort
  \/ AgentRoute
  \/ AgentNginxTest
  \/ AgentNginxReload

InitAgent ==
  /\ StoreInit
  /\ CpInit
  /\ agentToken = FALSE
  /\ \E env0 \in {EnvNoFile, EnvText(<<CommentLine, KV(OtherEnv, <<"t", "0">>)>>)},
        site0 \in {StandardSite, NoAnchorSite} : AgentInitWith(env0, site0)

NextAgent == AgentBegin \/ AgentStep

SpecAgent == InitAgent /\ [][NextAgent]_vars

-----------------------------------------------------------------------------
(* Several requests in one agent process.  The handler runs without         *)
(* interruption up to await fetchJsonText(...) and again from there to its  *)
(* reply (every other call is synchronous), so another request is served    *)
(* only while a run waits for its fetch.                                    *)

ConcBodies ==
  { Body(IdA, "json", JUndef, JUndef, JStr(Url("https", "u1"))),
    Body(IdAB, "json", JStr(CustomPath), JUndef, JStr(Url("http", "u3"))),
    Body(IdAB, "json", JStr(CustomPath), JUndef, JUndef) }

ConcBegin == \E body \in ConcBodies : AgentBeginCall(body, TRUE)

\* the run that returned ok, as the caller knows it
OkRun == [id |-> areq.id, mcpPath |-> areq.mcpPath, tokenEnv |-> areq.tokenEnv,
          token |-> areq.token]

\* the run reaches its await: the event loop is free for another request
ConcSuspend ==
  /\ apc = "fetching"
  /\ parked' = [parked EXCEPT !.susp = @ \cup {[areq |-> areq, trace |-> trace]}]
  /\ apc' = "idle"
  /\ UNCHANGED <<areq, trace, result, prevRun, fsVars, storeVars, lastOp, cpVars, saveVars>>

\* the fetch of a suspended run settles once the handler in progress has
\* replied: that run continues where it stopped
ConcResumeCall(ctx) ==
  /\ AgentIdle
  /\ ctx \in parked.susp
  /\ parked' = [susp |-> parked.susp \ {ctx},
                oks |-> IF apc = "done" /\ result.ok THEN parked.oks \cup {OkRun}
                        ELSE parked.oks]
  /\ apc' = "fetching"
  /\ areq' = ctx.areq
  /\ trace' = ctx.trace
  /\ result' = NoResult
  /\ UNCHANGED <<prevRun, fsVars, storeVars, lastOp, cpVars, saveVars>>

ConcResume == \E ctx \in parked.susp : ConcResumeCall(ctx)

NextConc == ConcBegin \/ AgentStep \/ ConcSuspend \/ ConcResume

SpecConc == InitAgent /\ [][NextConc]_vars

-----------------------------------------------------------------------------
(* The URL source over several runs: one project whose source URL changes,  *)
(* each URL answering with its own validator                                *)

\* the ETag a URL serves
EtagOf(url) == JStr(<<"e", url>>)

FetchBodies ==
  { Body(IdA, "json", JUndef, JUndef, JStr(Url("https", "u1"))),
    Body(IdA, "json", JUndef, JUndef, JStr(Url("https", "u2"))) }

ResponsesOf(url) ==
  { Response(FALSE, 200, DocText, EtagOf(url), JNull),
    Response(FALSE, 304, BadText, EtagOf(url), JNull),
    Response(FALSE, 404, BadText, JNull, JNull) }

FetchBeginCall(body) ==
  /\ calls < MaxCalls
  /\ calls' = calls + 1
  /\ now' = now + 1
  /\ AgentReceive(body, TRUE)
  /\ UNCHANGED <<dbFile, ret, wrote, lastOp, cpVars, saveVars, parked>>

FetchBegin == \E body \in FetchBodies : FetchBeginCall(body)

FetchReturn ==
  /\ apc = "fetching"
  /\ \E resp \in ResponsesOf(areq.url.v) : AgentFetchReturnCall(resp)

NextFetch ==
  \/ FetchBegin
  \/ AgentPull
  \/ AgentSource
  \/ FetchReturn
  \/ AgentGenerator
  \/ AgentCredential
  \/ AgentComposeUp
  \/ AgentReadPort
  \/ AgentRoute
  \/ AgentNginxTest
  \/ AgentNginxReload

InitFetch ==
  /\ StoreInit
  /\ CpInit
  /\ agentToken = FALSE
  /\ AgentInitWith(EnvNoFile, StandardSite)

SpecFetch == InitFetch /\ [][NextFetch]_vars

-----------------------------------------------------------------------------
(* The proxy steps of the handler over the proxy configurations and the     *)
(* composition descriptors the agent can meet: sites with several server    *)
(* blocks, projects that share a mount path, descriptors with several port  *)
(* mappings                                                                  *)

\* the mcp block with its catch-all, followed by another server block
TwoBlockSite ==
  <<ServerOpen, ServerName("mcp"), Anchor, ServerClose,
    ServerOpen, ServerName("www"), Anchor, ServerClose>>
\* the mcp block without a catch-all, followed by a block that has one
OrphanAnchorSite ==
  <<ServerOpen, ServerName("mcp"), ServerClose,
    ServerOpen, ServerName("www"), Anchor, ServerClose>>
\* another server block first
WwwFirstSite ==
  <<ServerOpen, ServerName("www"), Anchor, ServerClose,
    ServerOpen, ServerName("mcp"), Anchor, ServerClose>>

ProxySites == {StandardSite, NoAnchorSite, TwoBlockSite, OrphanAnchorSite, WwwFirstSite}

OtherPortCompose == <<Mapping(TRUE, 19002, 8080)>>
TwoPortCompose == <<Mapping(TRUE, 19001, 8080), Mapping(TRUE, 19002, 8080)>>

\* what mcp-service init may write as the composition descriptor
ProxyGenOutcomes ==
  { [throws |-> FALSE, project |-> TRUE, compose |-> File(c)] :
      c \in {GoodCompose, OtherPortCompose, TwoPortCompose, NoPortCompose} }

ProxyBodies ==
  { Body(IdA, "json", JUndef, JUndef, JUndef),
    Body(IdA, "json", JStr(CustomPath), JUndef, JUndef),
    Body(IdAB, "json", JStr(CustomPath), JUndef, JUndef) }

ProxyBegin == \E body \in ProxyBodies : AgentBeginCall(body, TRUE)

ProxyGenerator == \E g \in ProxyGenOutcomes : AgentGeneratorCall(g)

NextProxy ==
  \/ ProxyBegin
  \/ AgentPull
  \/ AgentSource
  \/ ProxyGenerator
  \/ AgentCredential
  \/ AgentComposeUp
  \/ AgentReadPort
  \/ AgentRoute
  \/ AgentNginxTest
  \/ AgentNginxReload

InitProxy ==
  /\ StoreInit
  /\ CpInit
  /\ agentToken = FALSE
  /\ \E site0 \in ProxySites : AgentInitWith(EnvNoFile, site0)

SpecProxy == InitProxy /\ [][NextProxy]_vars

-----------------------------------------------------------------------------
(* ensureEnvLine over the contents the environment file can have *)

MaxEnvLines == 3

\* the name the token of project "a" is stored under
TokenKey == tokenEnvForProjectId(IdA)

\* lines of the file: the token line with a value or with none, a line of
\* another name, an empty line, a comment
EnvLineValues ==
  { KV(TokenKey, <<"t", "0">>), KV(TokenKey, <<>>), KV(OtherEnv, <<"t", "0">>),
    BlankLine, CommentLine }

\* no file, or a text of up to MaxEnvLines lines after split(/\r?\n/)
EnvFiles ==
  {EnvNoFile} \cup
  { EnvText(l) : l \in UNION { [1..n -> EnvLineValues] : n \in 1..MaxEnvLines } }

EnvWriteCall(key, value) ==
  /\ envFile' = ensureEnvLine(envFile, key, value)
  /\ UNCHANGED <<apc, areq, payload, meta, descProject, descCompose, nginxSite, nginxLive,
                 containers, tokens, dataDir, trace, result, prevRun, storeVars, lastOp,
                 cpVars, saveVars, parked>>

EnvWrite == \E key \in {TokenKey, OtherEnv}, n \in 1..2 : EnvWriteCall(key, Tok(n))

InitEnv ==
  /\ StoreInit
  /\ CpInit
  /\ agentToken = FALSE
  /\ \E env0 \in EnvFiles : AgentInitWith(env0, StandardSite)

SpecEnv == InitEnv /\ [][EnvWrite]_vars

-----------------------------------------------------------------------------
(* agent.ts as that file has it: the POST /deploy handler without a source  *)
(* resolver, which draws a token at the start of every run                  *)

\* randToken(), then host("git pull --ff-only")
AgentTsPull ==
  /\ apc = "pull"
  /\ trace' = Append(trace, "pull")
  /\ \E randOk \in BOOLEAN, ok \in BOOLEAN :
       IF ~randOk
       THEN /\ Fail(500, "pull") /\ areq' = [areq EXCEPT !.clean = FALSE]
            /\ UNCHANGED tokens
       ELSE /\ tokens' = tokens + 1
            /\ areq' = [areq EXCEPT !.token = JStr(Tok(tokens + 1)), !.tokenCreated = TRUE,
                                    !.clean = ok]
            /\ IF ok THEN apc' = "init" /\ UNCHANGED result ELSE Fail(500, "pull")
  /\ UNCHANGED <<payload, meta, descProject, descCompose, envFile, nginxSite, nginxLive,
                 containers, dataDir, prevRun, storeVars, lastOp, cpVars, saveVars, parked>>

\* mcp-service init, on every run
AgentTsInitCall(g) ==
  LET id == areq.id IN
  /\ apc = "init"
  /\ trace' = Append(trace, "init")
  /\ descProject' = [descProject EXCEPT ![id] = IF g.throws THEN @ ELSE g.project \/ @]
  /\ descCompose' = [descCompose EXCEPT ![id] =
                       IF ~g.throws /\ g.compose.exists THEN g.compose ELSE @]
  /\ IF g.throws
     THEN Fail(500, "generator") /\ areq' = [areq EXCEPT !.clean = FALSE]
     ELSE apc' = "env" /\ UNCHANGED <<areq, result>>
  /\ UNCHANGED <<payload, meta, envFile, nginxSite, nginxLive, containers, tokens, dataDir,
                 prevRun, storeVars, lastOp, cpVars, saveVars, parked>>

AgentTsInit == \E g \in GenOutcomes : AgentTsInitCall(g)

\* ensureEnvLine(env.MCP_ENV_FILE, tokenEnv, token), whatever the file holds
AgentTsCredential ==
  /\ apc = "env"
  /\ trace' = Append(trace, "credential")
  /\ envFile' = ensureEnvLine(envFile, areq.tokenEnv, areq.token.v)
  /\ apc' = AfterStep("credential")
  /\ UNCHANGED <<areq, result, payload, meta, descProject, descCompose, nginxSite, nginxLive,
                 containers, tokens, dataDir, prevRun, storeVars, lastOp, cpVars, saveVars, parked>>

\* /127\\.0\\.0\\.1:(19\\d{3}):8080/ asks for a backslash before each dot
\* and before the d; a port mapping holds none
MatchesPortPatternTs(m) == FALSE

\* readHostPortFromCompose of agent.ts: readFileSync, then the match
AgentTsReadPort ==
  LET file == descCompose[areq.id]
      found == file.exists /\ \E i \in 1..Len(file.content) : MatchesPortPatternTs(file.content[i])
  IN
  /\ apc = "port"
  /\ trace' = Append(trace, "port")
  /\ IF found
     THEN /\ areq' = [areq EXCEPT !.hostPort = readHostPortFromCompose(file.content)]
          /\ apc' = AfterStep("port")
          /\ UNCHANGED result
     ELSE Fail(500, "port") /\ UNCHANGED areq
  /\ UNCHANGED <<fsVars, prevRun, storeVars, lastOp, cpVars, saveVars, parked>>

NextAgentTs ==
  \/ AgentBegin
  \/ AgentTsPull
  \/ AgentTsInit
  \/ AgentTsCredential
  \/ AgentComposeUp
  \/ AgentTsReadPort

SpecAgentTs == InitAgent /\ [][NextAgentTs]_vars

-----------------------------------------------------------------------------
(* index.ts: the control-plane API *)

PostBody(id, type, mcpPath) == [id |-> id, type |-> type, mcpPath |-> mcpPath]

PostBodies ==
  { PostBody(IdA, "json", JUndef),
    PostBody(<<" ", "a">>, "openapi", JStr(CustomPath)),
    PostBody(IdAB, "json", JUndef),
    PostBody(<<"A">>, "json", JUndef),
    PostBody(IdA, "yaml", JUndef),
    PostBody(IdA, "postgres", JStr(<<" ">>)),
    PostBody(IdAB, "mysql", JStr(CustomPath)) }

DeployIds == {IdA, IdAB, <<" ", "a", "-", "b">>, <<"A">>}

Reply(code) == [code |-> code]

\* the argument POST /api/projects hands to upsertProject
PostProjectsRecord_RawId(body) ==
  LET id == validateProjectId(body.id).v IN
  [id |-> id, type |-> body.type,
   mcpPath |-> IF body.mcpPath.t = "string" /\ trim(body.mcpPath.v) # <<>>
               THEN trim(body.mcpPath.v) ELSE DefaultPath(id),
   tokenEnv |-> tokenEnvForProjectId(body.id),
   jsonInline |-> JUndef, jsonUrl |-> JUndef]
PostProjectsRecord(body) ==
  LET id == validateProjectId(body.id).v IN
  [id |-> id, type |-> body.type,
   mcpPath |-> IF body.mcpPath.t = "string" /\ trim(body.mcpPath.v) # <<>>
               THEN trim(body.mcpPath.v) ELSE DefaultPath(id),
   tokenEnv |-> tokenEnvForProjectId(id),
   jsonInline |-> JUndef, jsonUrl |-> JUndef]

\* POST /api/projects
PostProjectsCall(body) ==
  LET bodyOk == /\ body.id # <<>>
                /\ body.type \in {"json", "openapi", "postgres", "mysql"}
                /\ body.mcpPath.t = "string" => body.mcpPath.v # <<>>
      r == upsertProject(dbFile, PostProjectsRecord(body), nowIso)
  IN
  /\ calls < MaxCalls
  /\ calls' = calls + 1
  /\ now' = now + 1
  /\ lastOp' = [op |-> "postProjects", rawId |-> body.id]
  /\ IF bodyOk /\ validateProjectId(body.id).ok
     THEN /\ dbFile' = r.file
          /\ ret' = r.ret
          /\ wrote' = r.saved
          /\ cpReply' = Reply(201)
     ELSE /\ cpReply' = Reply(500)
          /\ wrote' = FALSE
          /\ UNCHANGED <<dbFile, ret>>
  /\ UNCHANGED <<agentToken, cp, agentVars, saveVars, parked>>

PostProjects == \E body \in PostBodies : PostProjectsCall(body)

\* POST /api/projects/:id/deploy up to its await: the lookup, the agent
\* configuration check, and the request sent to the agent
DeployBeginCall(rawId, reachable, authOk) ==
  LET v == validateProjectId(rawId)
      db == loadDb(dbFile)
      i == FindIndex(db.projects, v.v)
  IN
  /\ cp.pc = "idle"
  /\ AgentIdle
  /\ calls < MaxCalls
  /\ calls' = calls + 1
  /\ now' = now + 1
  /\ wrote' = FALSE
  /\ UNCHANGED <<dbFile, ret, agentToken, saveVars, parked>>
  /\ IF ~v.ok
     THEN /\ cpReply' = Reply(500)
          /\ lastOp' = [op |-> "deploy", id |-> v.v, outcome |-> "invalid"]
          /\ UNCHANGED <<cp, agentVars>>
     ELSE IF i = 0
     THEN /\ cpReply' = Reply(404)
          /\ lastOp' = [op |-> "deploy", id |-> v.v, outcome |-> "not-found"]
          /\ UNCHANGED <<cp, agentVars>>
     ELSE IF ~agentToken
     THEN /\ cpReply' = Reply(503)
          /\ lastOp' = [op |-> "deploy", id |-> v.v, outcome |-> "unconfigured"]
          /\ UNCHANGED <<cp, agentVars>>
     ELSE IF ~reachable
     THEN /\ cpReply' = Reply(500)
          /\ lastOp' = [op |-> "deploy", id |-> v.v, outcome |-> "unreachable"]
          /\ UNCHANGED <<cp, agentVars>>
     ELSE LET p0 == db.projects[i] IN
          /\ cp' = [pc |-> "awaiting", id |-> v.v]
          /\ lastOp' = [op |-> "deploy", id |-> v.v, outcome |-> "sent"]
          /\ AgentReceive(Body(p0.id, p0.type, JStr(p0.mcpPath), JUndef, JUndef), authOk)
          /\ UNCHANGED cpReply

DeployBegin ==
  \E rawId \in DeployIds, reachable \in BOOLEAN, authOk \in BOOLEAN :
    DeployBeginCall(rawId, reachable, authOk)

\* POST /api/projects/:id/deploy after its await: the agent's reply
DeployEnd_IgnoresStatus ==
  LET info == [hostPort |-> IF result.ok THEN result.hostPort ELSE JNull,
               nginxChanged |-> IF result.ok THEN JBool(result.nginxChanged) ELSE JNull]
      r == markDeployed(dbFile, cp.id, info, nowIso)
  IN
  /\ cp.pc = "awaiting"
  /\ apc \in {"done", "failed"}
  /\ cp' = CpIdle
  /\ dbFile' = r.file
  /\ ret' = r.ret
  /\ wrote' = r.saved
  /\ cpReply' = Reply(IF r.ret = JNull THEN 404 ELSE 200)
  /\ lastOp' = [op |-> "deploy", id |-> cp.id, outcome |-> "ok"]
  /\ UNCHANGED <<now, calls, agentToken, agentVars, saveVars, parked>>
DeployEnd ==
  LET info == [hostPort |-> IF result.ok THEN result.hostPort ELSE JNull,
               nginxChanged |-> IF result.ok THEN JBool(result.nginxChanged) ELSE JNull]
      r == markDeployed(dbFile, cp.id, info, nowIso)
  IN
  /\ cp.pc = "awaiting"
  /\ apc \in {"done", "failed"}
  /\ cp' = CpIdle
  /\ IF ~result.ok
     THEN /\ cpReply' = Reply(502)
          /\ lastOp' = [op |-> "deploy", id |-> cp.id, outcome |-> "failed"]
          /\ wrote' = FALSE
          /\ UNCHANGED <<dbFile, ret>>
     ELSE /\ dbFile' = r.file
          /\ ret' = r.ret
          /\ wrote' = r.saved
          /\ cpReply' = Reply(IF r.ret = JNull THEN 404 ELSE 200)
          /\ lastOp' = [op |-> "deploy", id |-> cp.id,
                        outcome |-> IF r.ret = JNull THEN "not-found" ELSE "ok"]
  /\ UNCHANGED <<now, calls, agentToken, agentVars, saveVars, parked>>

InitApi ==
  /\ StoreInit
  /\ CpInit
  /\ agentToken \in BOOLEAN
  /\ AgentInitWith(EnvNoFile, StandardSite)

\* the control plane sends no source arguments, so the run it starts never
\* reaches the remote fetch
NextApi ==
  \/ PostProjects
  \/ DeployBegin
  \/ AgentPull
  \/ AgentSource
  \/ AgentGenerator
  \/ AgentCredential
  \/ AgentComposeUp
  \/ AgentReadPort
  \/ AgentRoute
  \/ AgentNginxTest
  \/ AgentNginxReload
  \/ DeployEnd

SpecApi == InitApi /\ [][NextApi]_vars

-----------------------------------------------------------------------------
(* Library-level behaviour of the registry: any sequence of upsertProject   *)
(* and markDeployed calls                                                   *)

Tick ==
  /\ now < MaxClock
  /\ now' = now + 1
  /\ UNCHANGED <<dbFile, calls, ret, wrote, lastOp, cpVars, agentVars, saveVars, parked>>

UpsertProjectCall(p) ==
  LET r == upsertProject(dbFile, p, nowIso) IN
  /\ calls < MaxCalls
  /\ dbFile' = r.file
  /\ ret' = r.ret
  /\ wrote' = r.saved
  /\ calls' = calls + 1
  /\ lastOp' = [op |-> "upsertProject", id |-> p.id, existed |-> Has(Projects, p.id)]
  /\ UNCHANGED <<now, cpVars, agentVars, saveVars, parked>>

UpsertProject == \E p \in UpsertInputs : UpsertProjectCall(p)

MarkDeployedCall(id, info) ==
  LET r == markDeployed(dbFile, id, info, nowIso) IN
  /\ calls < MaxCalls
  /\ dbFile' = r.file
  /\ ret' = r.ret
  /\ wrote' = r.saved
  /\ calls' = calls + 1
  /\ lastOp' = [op |-> "markDeployed", id |-> id, existed |-> Has(Projects, id),
                info |-> info]
  /\ UNCHANGED <<now, cpVars, agentVars, saveVars, parked>>

MarkDeployed == \E id \in StoreIds, info \in MarkInfos : MarkDeployedCall(id, info)

Init ==
  /\ StoreInit
  /\ CpInit
  /\ agentToken = FALSE
  /\ AgentInitWith(EnvNoFile, StandardSite)

Next == Tick \/ UpsertProject \/ MarkDeployed

Spec == Init /\ [][Next]_vars

-----------------------------------------------------------------------------
(* storage.ts: saveDb statement by statement, with the process allowed to   *)
(* stop between any two of its file-system operations                       *)

\* a file that holds a proper prefix of the text being written to it
Partial == [kind |-> "partial"]

\* the mutation computed in memory, then saveDb entered
SaveBeginUpsert(p) ==
  LET r == upsertProject(dbFile, p, nowIso) IN
  /\ sv.pc = "idle"
  /\ calls < MaxCalls
  /\ calls' = calls + 1
  /\ now' = now + 1
  /\ sv' = [pc |-> "mkdir", old |-> dbFile, new |-> r.file]
  /\ ret' = r.ret
  /\ wrote' = FALSE
  /\ lastOp' = [op |-> "save", id |-> p.id]
  /\ UNCHANGED <<dbFile, tmpFile, cpVars, agentVars, parked>>

SaveBeginMark(id, info) ==
  LET r == markDeployed(dbFile, id, info, nowIso) IN
  /\ sv.pc = "idle"
  /\ calls < MaxCalls
  /\ r.saved
  /\ calls' = calls + 1
  /\ now' = now + 1
  /\ sv' = [pc |-> "mkdir", old |-> dbFile, new |-> r.file]
  /\ ret' = r.ret
  /\ wrote' = FALSE
  /\ lastOp' = [op |-> "save", id |-> id]
  /\ UNCHANGED <<dbFile, tmpFile, cpVars, agentVars, parked>>

SaveBegin ==
  \/ \E p \in UpsertInputs : SaveBeginUpsert(p)
  \/ \E id \in StoreIds, info \in MarkInfos : SaveBeginMark(id, info)

\* fs.mkdirSync(path.dirname(abs), { recursive: true })
SaveMkdir ==
  /\ sv.pc = "mkdir"
  /\ sv' = [sv EXCEPT !.pc = "open"]
  /\ UNCHANGED <<dbFile, tmpFile, now, calls, ret, wrote, lastOp, cpVars, agentVars, parked>>

\* fs.writeFileSync(tmp, ...): the file is opened with truncation ...
SaveOpen_InPlace ==
  /\ sv.pc = "open"
  /\ dbFile' = Partial
  /\ sv' = [sv EXCEPT !.pc = "write"]
  /\ UNCHANGED <<tmpFile, now, calls, ret, wrote, lastOp, cpVars, agentVars, parked>>
SaveOpen ==
  /\ sv.pc = "open"
  /\ tmpFile' = Partial
  /\ sv' = [sv EXCEPT !.pc = "write"]
  /\ UNCHANGED <<dbFile, now, calls, ret, wrote, lastOp, cpVars, agentVars, parked>>

\* ... and the text written to it
SaveWrite ==
  /\ sv.pc = "write"
  /\ tmpFile' = sv.new
  /\ sv' = [sv EXCEPT !.pc = "rename"]
  /\ UNCHANGED <<dbFile, now, calls, ret, wrote, lastOp, cpVars, agentVars, parked>>

\* fs.renameSync(tmp, abs): the target is replaced in one step
SaveRename ==
  /\ sv.pc = "rename"
  /\ dbFile' = tmpFile
  /\ tmpFile' = Missing
  /\ wrote' = TRUE
  /\ sv' = [sv EXCEPT !.pc = "idle"]
  /\ UNCHANGED <<now, calls, ret, lastOp, cpVars, agentVars, parked>>

\* the process stops inside saveDb and is started again; files stay as
\* they are
SaveCrash ==
  /\ sv.pc # "idle"
  /\ sv' = [sv EXCEPT !.pc = "idle"]
  /\ UNCHANGED <<dbFile, tmpFile, now, calls, ret, wrote, lastOp, cpVars, agentVars, parked>>

NextSave == SaveBegin \/ SaveMkdir \/ SaveOpen \/ SaveWrite \/ SaveRename \/ SaveCrash

SpecSave == Init /\ [][NextSave]_vars

-----------------------------------------------------------------------------
(* Claims about the registry *)

Range(f) == {f[i] : i \in DOMAIN f}
ProjectsNext == loadDb(dbFile').projects

\* C4: across any sequence of upsertProject and markDeployed calls a
\* project whose status is deployed stays in the registry and is never
\* draft again.
C4_StatusMonotonic ==
  [][\A p \in Range(Projects) :
       p.status = "deployed" =>
         /\ \E q \in Range(ProjectsNext) : q.id = p.id
         /\ \A q \in Range(ProjectsNext) : q.id = p.id => q.status = "deployed"]_vars

\* an upsertProject has just been applied to a deployed record
C4_Witness ==
  /\ lastOp.op = "upsertProject"
  /\ lastOp.existed
  /\ ret.status = "deployed"

SameExcept(old, new, fields) ==
  /\ DOMAIN new = DOMAIN old
  /\ \A f \in DOMAIN old \ fields : new[f] = old[f]

\* C6: upsertProject on an id that already exists changes only type,
\* mcpPath, tokenEnv, jsonInline and jsonUrl of that record: its id,
\* createdAt, status, lastDeployAt, hostPort and nginxChanged, and every
\* other record, are the same before and after.
C6_UpsertFrame ==
  [][\A p \in UpsertInputs :
       (UpsertProjectCall(p) /\ Has(Projects, p.id)) =>
         LET i == FindIndex(Projects, p.id) IN
         /\ Len(ProjectsNext) = Len(Projects)
         /\ \A j \in 1..Len(Projects) : j # i => ProjectsNext[j] = Projects[j]
         /\ SameExcept(Projects[i], ProjectsNext[i],
                       {"type", "mcpPath", "tokenEnv", "jsonInline", "jsonUrl"})
         /\ \A f \in {"id", "createdAt", "status", "lastDeployAt", "hostPort", "nginxChanged"} :
              ProjectsNext[i][f] = Projects[i][f]]_vars

\* an upsertProject has just changed the type of a deployed record that
\* carries a deploy result, at a later time than its creation
C6_Witness ==
  /\ lastOp.op = "upsertProject"
  /\ lastOp.existed
  /\ ret.status = "deployed"
  /\ ret.hostPort.t = "number"
  /\ ret.nginxChanged.t = "boolean"
  /\ ret.createdAt < now
  /\ ret.type = "mysql"

\* C7: starting from a missing or empty store, no two records of the
\* registry have the same id.
C7_UniqueIds ==
  \A i, j \in 1..Len(Projects) : i # j => Projects[i].id # Projects[j].id

\* an upsertProject of an id already present has just run on a registry
\* of two records
C7_Witness ==
  /\ lastOp.op = "upsertProject"
  /\ lastOp.existed
  /\ Len(Projects) = 2

\* C9: markDeployed with an id absent from the registry returns null,
\* adds no record and does not write the backing file.
C9_MarkDeployedAbsent ==
  [][\A id \in StoreIds, info \in MarkInfos :
       (MarkDeployedCall(id, info) /\ ~Has(Projects, id)) =>
         /\ ret' = JNull
         /\ ~wrote'
         /\ dbFile' = dbFile]_vars

\* markDeployed has just been called with an absent id, on a registry that
\* holds another record, and on a store that is still missing
C9_Witness ==
  /\ lastOp.op = "markDeployed"
  /\ ~lastOp.existed
  /\ ret = JNull
  /\ (Len(Projects) = 1 \/ dbFile = Missing)

\* C10: markDeployed on an existing id sets status to deployed and
\* lastDeployAt to the current time, sets hostPort / nginxChanged to the
\* supplied value when one is supplied, leaves each at its previous value
\* when it is omitted or null, and changes nothing else.
C10_MarkDeployedEffect ==
  [][\A id \in StoreIds, info \in MarkInfos :
       (MarkDeployedCall(id, info) /\ Has(Projects, id)) =>
         LET i == FindIndex(Projects, id)
             old == Projects[i]
             new == ProjectsNext[i]
         IN
         /\ Len(ProjectsNext) = Len(Projects)
         /\ \A j \in 1..Len(Projects) : j # i => ProjectsNext[j] = Projects[j]
         /\ new.status = "deployed"
         /\ new.lastDeployAt = JNum(now)
         /\ info.hostPort.t = "number" => new.hostPort = info.hostPort
         /\ info.hostPort.t \in {"null", "undefined"} => new.hostPort = old.hostPort
         /\ info.nginxChanged.t = "boolean" => new.nginxChanged = info.nginxChanged
         /\ info.nginxChanged.t \in {"null", "undefined"} => new.nginxChanged = old.nginxChanged
         /\ SameExcept(old, new, {"status", "lastDeployAt", "hostPort", "nginxChanged"})]_vars

\* markDeployed has just been called with null values on a record that
\* already carried a host port and a route outcome, which it kept
C10_Witness ==
  /\ lastOp.op = "markDeployed"
  /\ lastOp.existed
  /\ lastOp.info.hostPort = JNull
  /\ lastOp.info.nginxChanged = JNull
  /\ ret.hostPort.t = "number"
  /\ ret.nginxChanged.t = "boolean"

-----------------------------------------------------------------------------
(* Claims about the control-plane API *)

RecordOf(projects, id) == projects[FindIndex(projects, id)]

\* C5: a deploy request through the control plane modifies the registry
\* if and only if the provisioning run returned success: a request that
\* ends in project-not-found, agent-unconfigured or a failed agent
\* response leaves the registry file as it was.
C5_RegistryOnlyOnSuccess ==
  [][/\ \A rawId \in DeployIds, reachable \in BOOLEAN, authOk \in BOOLEAN :
          DeployBeginCall(rawId, reachable, authOk) => (dbFile' = dbFile /\ ~wrote')
     /\ DeployEnd =>
          /\ wrote' <=> result.ok
          /\ ~result.ok => dbFile' = dbFile
          /\ result.ok =>
               /\ dbFile' # dbFile
               /\ RecordOf(ProjectsNext, cp.id).status = "deployed"
               /\ RecordOf(ProjectsNext, cp.id).lastDeployAt = JNum(now)]_vars

\* a deploy request has just ended on a failed agent response, for a
\* project that an earlier request had deployed
C5_Witness ==
  /\ lastOp.op = "deploy"
  /\ lastOp.outcome = "failed"
  /\ cpReply = Reply(502)
  /\ Has(Projects, lastOp.id)
  /\ RecordOf(Projects, lastOp.id).status = "deployed"
  /\ RecordOf(Projects, lastOp.id).hostPort.t = "number"

\* C8: after any sequence of registrations and deploys through the
\* control-plane API, every record of the registry has tokenEnv equal to
\* tokenEnvForProjectId of its id.
C8_TokenEnvOfId ==
  \A i \in 1..Len(Projects) :
    Projects[i].tokenEnv = tokenEnvForProjectId(Projects[i].id)

\* a deployed project has just been registered again under an id that
\* needed trimming
C8_Witness ==
  /\ lastOp.op = "postProjects"
  /\ lastOp.rawId = <<" ", "a">>
  /\ cpReply = Reply(201)
  /\ Has(Projects, IdA)
  /\ RecordOf(Projects, IdA).status = "deployed"

-----------------------------------------------------------------------------
(* Claims about the provisioning run *)

\* a trace event belongs to a step of the run
StepOf(ev) == IF ev = "fetch" THEN "source" ELSE IF ev = "init" THEN "generator" ELSE ev

RECURSIVE StepsOf(_)
StepsOf(tr) ==
  IF tr = <<>> THEN <<>>
  ELSE IF Head(tr) \in {"fetch", "init"} THEN StepsOf(Tail(tr))
  ELSE <<Head(tr)>> \o StepsOf(Tail(tr))

FixedOrder(type) ==
  <<"pull">> \o (IF type = "json" THEN <<"source">> ELSE <<>>)
    \o <<"generator", "credential", "up", "port", "route", "validate", "reload">>

IsPrefix(a, b) == Len(a) <= Len(b) /\ SubSeq(b, 1, Len(a)) = a

RunStarted == apc # "idle" /\ result.failedAt # "request"

\* C1: within one provisioning run the steps execute in the fixed order
\* resolve source, ensure descriptors, ensure credential, container
\* bring-up, read host port, ensure proxy route, validate and reload proxy
\* (each at most once); a run that fails has executed nothing after the
\* failing step, and a run that returns ok has executed every step up to
\* the route, and validate and reload exactly when the route changed.
C1_FixedOrder ==
  RunStarted =>
    LET steps == StepsOf(trace)
        order == FixedOrder(areq.body.type)
    IN
    /\ IsPrefix(steps, order)
    /\ apc = "failed" => (trace # <<>> /\ StepOf(trace[Len(trace)]) = StepOf(result.failedAt))
    /\ apc = "done" =>
         steps = IF result.nginxChanged THEN order ELSE SubSeq(order, 1, Len(order) - 2)

\* a run has failed at container bring-up after the earlier steps ran
C1_Witness ==
  /\ apc = "failed"
  /\ result.failedAt = "up"
  /\ trace = <<"pull", "source", "generator", "init", "credential", "up">>

\* the provisioned facts of the project of the current run
ProvisionedFacts ==
  /\ areq.body.type = "json" => payload[areq.id].exists
  /\ descProject[areq.id]
  /\ descCompose[areq.id].exists
  /\ Truthy(readEnvValue(envFile, areq.tokenEnv))
  /\ areq.id \in containers
  /\ HasLocLine(nginxLive, areq.mcpPath)

RetryOfFailedRun ==
  /\ prevRun.ran
  /\ ~prevRun.ok
  /\ prevRun.failedAt # "request"
  /\ prevRun.body = areq.body

\* C2: when provisioning is re-invoked with the same arguments after a
\* run that failed at some step, and returns ok, every provisioned fact
\* holds: payload present, both descriptors present, a token stored under
\* the env name, container brought up, and the live proxy has loaded a
\* configuration that contains the project's route.
C2_RetryConverges ==
  (apc = "done" /\ RetryOfFailedRun) => ProvisionedFacts

\* the same, for first runs that failed before the proxy was patched
C2_RetryConvergesBeforeProxy ==
  (apc = "done" /\ RetryOfFailedRun /\ prevRun.failedAt \notin {"validate", "reload"})
    => ProvisionedFacts

C2_RetryBeforeProxyWitness ==
  /\ apc = "done"
  /\ RetryOfFailedRun
  /\ prevRun.failedAt = "up"

NoSourceArgs(body) ==
  /\ ~(body.jsonUrl.t = "string" /\ ~body.jsonUrl.v.blank)
  /\ ~(body.jsonInline.t = "string" /\ ~body.jsonInline.v.blank)

RerunAfterSuccess ==
  /\ RunStarted
  /\ prevRun.ran
  /\ prevRun.ok
  /\ prevRun.body.type = "json"
  /\ areq.body.type = "json"
  /\ trim(prevRun.body.id) = areq.id
  /\ NoSourceArgs(areq.body)

PathOf(body) ==
  IF body.mcpPath.t = "string" /\ trim(body.mcpPath.v) # <<>>
  THEN trim(body.mcpPath.v) ELSE DefaultPath(trim(body.id))

RerunUnchanged ==
  /\ "fetch" \notin Range(trace)
  /\ "init" \notin Range(trace)
  /\ payload[areq.id] = areq.start.payload[areq.id]
  /\ meta[areq.id] = areq.start.meta[areq.id]
  /\ envFile = areq.start.envFile
  /\ nginxSite = areq.start.nginxSite
  /\ apc = "done" => (result.token = JNull /\ result.nginxChanged = FALSE)

\* C3 as stated: after a successful run of a json project, a second run
\* for the same id with no source arguments performs no fetch, does not
\* invoke the generator, leaves payload, source meta, environment file and
\* proxy configuration as they were, and returns token = null and
\* nginxChanged = false.
C3_RerunUnchangedAnyPath ==
  RerunAfterSuccess => RerunUnchanged

\* C3 amended: the same, for a second run with the same mount path.
C3_RerunUnchanged ==
  (RerunAfterSuccess /\ PathOf(prevRun.body) = areq.mcpPath) => RerunUnchanged

\* a second run without source arguments has returned after a first run
\* that wrote the payload from inline content
C3_Witness ==
  /\ apc = "done"
  /\ RerunAfterSuccess
  /\ PathOf(prevRun.body) = areq.mcpPath
  /\ prevRun.body.jsonInline.t = "string"
  /\ payload[areq.id].exists

-----------------------------------------------------------------------------
(* Claims about saveDb (SpecSave) *)

\* loadDb on a readable file: it returns a Db without throwing
Loadable(file) == file.kind \in {"missing", "empty", "db"}

\* C11: at every point of a save, a stop between any two of its steps
\* included, the registry file is either the complete content it had when
\* the save began or the complete new content, never a partial one; the
\* new text goes to the temporary file first and reaches the target only
\* by the rename.
C11_AtomicSave ==
  /\ Loadable(dbFile)
  /\ sv # NoSave => dbFile \in {sv.old, sv.new}
  /\ sv.pc \in {"mkdir", "open", "write", "rename"} => dbFile = sv.old

\* a save stopped while its temporary file was half written, over a
\* registry that already had content
C11_Witness ==
  /\ sv.pc = "idle"
  /\ tmpFile = Partial
  /\ dbFile.kind = "db"
  /\ dbFile = sv.old
  /\ sv.new # sv.old

-----------------------------------------------------------------------------
(* Claims about the token in the environment file *)

TokenEnvs == { tokenEnvForProjectId(id) : id \in FsIds }

\* the value the environment file holds under a name, as the agent reads it
Held(file, key) == readEnvValue(file, key)

\* C12: once the environment file holds a non-empty value under a
\* project's token env name, no step of any provisioning run changes that
\* value.
C12_NoRotation ==
  [][\A k \in TokenEnvs : Truthy(Held(envFile, k)) => Held(envFile', k) = Held(envFile, k)]_vars

\* the value held under the run's token env name when the request arrived
HeldAtStart == Held(areq.start.envFile, areq.tokenEnv)

\* C13: a result carries a non-null token only when no value was held
\* under the project's token env name at the start of that run; when one
\* was held, the result's token is null.
C13_TokenOnlyWhenCreated ==
  (apc = "done" /\ result.ok) =>
    /\ result.token # JNull => ~Truthy(HeldAtStart)
    /\ Truthy(HeldAtStart) => result.token = JNull

\* a successful run that found a token in place and returned none
C13_Witness ==
  /\ apc = "done"
  /\ result.ok
  /\ Truthy(HeldAtStart)
  /\ result.token = JNull
  /\ prevRun.ran

\* C14: every token a run generates and stores in the environment file is
\* revealed in exactly one response.  A later run finds the value in place
\* and returns null (C13), so the one response can only be that of the run
\* which stored the token: when such a run ends, its reply is ok and
\* carries the token.
C14_StoredTokenRevealed ==
  (apc \in {"done", "failed"} /\ areq.tokenCreated) =>
    /\ result.ok
    /\ result.token = areq.token
    /\ Held(envFile, areq.tokenEnv) = areq.token

-----------------------------------------------------------------------------
(* Claims about the route patcher *)

RoutePaths == {DefaultPath(IdA), DefaultPath(IdAB), CustomPath}
RoutePorts == {19001, 19002}

\* C15: for every proxy configuration the agent can be looking at, calling
\* the route patcher twice with the same mount path and host port changes
\* the file on the first call only: a first call that returns changed has
\* written a different text, and the second call returns no-change and
\* leaves the text identical.
C15_RouteIdempotent ==
  \A path \in RoutePaths, port \in RoutePorts :
    LET first == ensureMcpNginxRoute(nginxSite, path, port)
        second == ensureMcpNginxRoute(first.out, path, port)
    IN ~first.err =>
         /\ first.changed <=> first.out # nginxSite
         /\ first.changed <=> ~HasLocLine(nginxSite, path)
         /\ ~second.err
         /\ ~second.changed
         /\ second.out = first.out

\* a run whose patcher call found the block an earlier call had inserted
\* for the same path and port, and changed nothing
C15_Witness ==
  /\ apc = "done"
  /\ result.ok
  /\ result.nginxChanged = FALSE
  /\ prevRun.ran
  /\ \E i \in 1..Len(nginxSite) : nginxSite[i] = Loc(areq.mcpPath, areq.hostPort.v)
  /\ nginxSite = areq.start.nginxSite
  /\ nginxSite # StandardSite

\* position of a step in the trace of the run, 0 when it was not executed
TracePos(step) ==
  IF \E i \in 1..Len(trace) : trace[i] = step
  THEN CHOOSE i \in 1..Len(trace) : trace[i] = step /\ \A j \in 1..(i - 1) : trace[j] # step
  ELSE 0

\* the patcher has run in this run and has written the file
PatcherChanged == TracePos("route") # 0 /\ nginxSite # areq.start.nginxSite

\* C16: in a run, proxy validation and reload are executed only after the
\* route patcher reported a change in that run; reload only after a
\* validation that succeeded; a run whose patcher reported no change
\* executes neither.
C16_ValidateReloadOnlyOnChange ==
  /\ TracePos("validate") # 0 =>
       /\ PatcherChanged
       /\ TracePos("route") < TracePos("validate")
  /\ TracePos("reload") # 0 =>
       /\ TracePos("validate") # 0
       /\ TracePos("validate") < TracePos("reload")
       /\ result.failedAt # "validate"
  /\ result.failedAt = "validate" => TracePos("reload") = 0
  /\ (TracePos("route") # 0 /\ ~PatcherChanged) =>
       TracePos("validate") = 0 /\ TracePos("reload") = 0

\* a second run that patched a new route, validated and reloaded
C16_Witness ==
  /\ apc = "done"
  /\ result.ok
  /\ result.nginxChanged = TRUE
  /\ prevRun.ran
  /\ prevRun.ok
  /\ TracePos("reload") = TracePos("validate") + 1

-----------------------------------------------------------------------------
(* Claims about the source resolver *)

NonBlank(x) == x.t = "string" /\ ~x.v.blank

\* the source resolver of the current run has finished (returned or failed)
SourceResolved ==
  /\ RunStarted
  /\ areq.body.type = "json"
  /\ TracePos("source") # 0
  /\ apc # "fetching"

SourceFailed == apc = "failed" /\ result.failedAt \in {"source", "fetch"}

PayloadKept ==
  /\ payload[areq.id] = areq.start.payload[areq.id]
  /\ meta[areq.id] = areq.start.meta[areq.id]

\* C17: for a json project the source is chosen by strict priority.  With
\* a non-blank URL the URL is fetched (when it is an http(s) URL) and the
\* inline content is never used, a failed fetch included; otherwise
\* non-blank inline content is what is written; otherwise an existing
\* payload is kept together with its meta; otherwise the payload is the
\* empty object with provenance "empty".
C17_SourcePriority ==
  SourceResolved =>
    LET b == areq.body
        id == areq.id
    IN
    IF NonBlank(b.jsonUrl)
    THEN /\ b.jsonUrl.v.protocol \in {"https", "http"} <=> TracePos("fetch") # 0
         /\ \/ PayloadKept
            \/ /\ ~SourceFailed
               /\ meta[id].exists
               /\ meta[id].content.url = JStr(b.jsonUrl.v.norm)
               /\ payload[id] = areq.start.payload[id]
                    \/ payload[id] \in { File(Canonical(r.text)) : r \in RemoteResponses }
         /\ SourceFailed => PayloadKept
    ELSE /\ TracePos("fetch") = 0
         /\ IF NonBlank(b.jsonInline)
            THEN IF SourceFailed THEN PayloadKept
                 ELSE /\ payload[id] = File(Canonical(b.jsonInline.v.text))
                      /\ meta[id].content.source = JStr("inline")
            ELSE /\ ~SourceFailed
                 /\ IF areq.start.payload[id].exists THEN PayloadKept
                    ELSE /\ payload[id] = File(EmptyObjectText)
                         /\ meta[id].content.source = JStr("empty")

\* a run given both a URL and inline content, whose fetch failed over an
\* existing payload: it stopped, and the inline content was not used
C17_Witness ==
  /\ SourceResolved
  /\ NonBlank(areq.body.jsonUrl)
  /\ NonBlank(areq.body.jsonInline)
  /\ apc = "failed"
  /\ result.failedAt = "fetch"
  /\ areq.start.payload[areq.id].exists
  /\ payload[areq.id] # File(Canonical(areq.body.jsonInline.v.text))

\* the fetch of the current run is answered 304 over an existing payload
CacheHit(resp) ==
  /\ AgentFetchReturnCall(resp)
  /\ ~fetchJsonText(resp).throws
  /\ fetchJsonText(resp).status = 304
  /\ payload[areq.id].exists

\* what the claim says a cache hit does
CacheHitEffect ==
  /\ payload' = payload
  /\ meta[areq.id].exists
  /\ meta'[areq.id].exists
  /\ SameExcept(meta[areq.id].content, meta'[areq.id].content, {"fetchedAt", "status"})
  /\ meta'[areq.id].content.fetchedAt = now
  /\ meta'[areq.id].content.status = 304
  /\ apc' = AfterStep("source")

\* C18: when the remote fetch answers 304 and a payload file exists, the
\* payload file is unchanged, the source meta differs from the prior meta
\* only in fetchedAt and status (hash, size, url and validators are kept),
\* and the run proceeds to the next step.
C18_CacheHitFrame ==
  [][\A resp \in RemoteResponses : CacheHit(resp) => CacheHitEffect]_vars

\* the same, for a prior meta that records the URL being fetched
C18_CacheHitFrameSameUrl ==
  [][\A resp \in RemoteResponses :
       (CacheHit(resp) /\ meta[areq.id].exists /\ meta[areq.id].content.url = areq.url)
         => CacheHitEffect]_vars

\* a request carrying inline content whose supplied size is over the limit
OversizeInline(body) ==
  body.jsonInline.t = "string" /\ body.jsonInline.v.text.bytes > JSON_MAX_BYTES

\* a 2xx answer whose body is over the limit
OversizeRemote(resp) ==
  /\ ~resp.throws
  /\ resp.status >= 200 /\ resp.status <= 299
  /\ resp.text.bytes > JSON_MAX_BYTES

\* C19: a source payload whose supplied size exceeds 2,000,000 bytes,
\* given inline or returned by the remote URL, makes the run fail with a
\* too-large error before anything is written: every file is as it was.
C19_SizeGuard ==
  [][/\ \A body \in AgentBodies, authOk \in BOOLEAN :
          (AgentBeginCall(body, authOk) /\ OversizeInline(body)) =>
            /\ apc' = "failed"
            /\ result'.code = 413
            /\ UNCHANGED fsVars
     /\ \A resp \in RemoteResponses :
          (AgentFetchReturnCall(resp) /\ OversizeRemote(resp)) =>
            /\ apc' = "failed"
            /\ result'.code = 500
            /\ result'.failedAt = "fetch"
            /\ UNCHANGED fsVars]_vars

\* an oversize inline payload was refused over an existing payload file
C19_Witness ==
  /\ apc = "failed"
  /\ result.code = 413
  /\ OversizeInline(areq.body)
  /\ payload[areq.id].exists
  /\ payload[areq.id] = areq.start.payload[areq.id]

\* C20: when source resolution fails (URL not http(s), fetch status other
\* than 200 or 304, fetched body or inline content not valid JSON, payload
\* too large), the payload files and the source meta files are what they
\* were before the run.
C20_FailedSourceKeepsFiles ==
  (apc = "failed" /\ result.failedAt \in {"request", "source", "fetch"}) =>
    /\ payload = areq.start.payload
    /\ meta = areq.start.meta

\* a fetch that returned text which does not parse, over a payload and a
\* meta written by an earlier run
C20_Witness ==
  /\ RunStarted
  /\ apc = "failed"
  /\ result.failedAt = "fetch"
  /\ result.code = 400
  /\ areq.start.payload[areq.id].exists
  /\ areq.start.meta[areq.id].exists
  /\ payload[areq.id] = areq.start.payload[areq.id]

-----------------------------------------------------------------------------
(* Claims about the generator step *)

\* how many times a step occurs in the trace of the run
Count(step) == Cardinality({i \in 1..Len(trace) : trace[i] = step})

DescriptorsMissing(project, compose) == ~project[areq.id] \/ ~compose[areq.id].exists

\* C21: in a run the generator is invoked zero times when both descriptors
\* exist and exactly once when either is missing; when either is still
\* missing afterwards the run has failed at that step and has executed
\* nothing after it.
C21_GeneratorOnlyWhenMissing ==
  RunStarted =>
    /\ TracePos("generator") = 0 => Count("init") = 0
    /\ TracePos("generator") # 0 =>
         /\ Count("init") =
              IF DescriptorsMissing(areq.start.descProject, areq.start.descCompose)
              THEN 1 ELSE 0
         /\ DescriptorsMissing(descProject, descCompose) =>
              /\ apc = "failed"
              /\ result.failedAt = "generator"
              /\ trace[Len(trace)] = "init"

\* the generator ran once, left the composition descriptor missing, and the
\* run stopped there
C21_Witness ==
  /\ RunStarted
  /\ apc = "failed"
  /\ result.failedAt = "generator"
  /\ Count("init") = 1
  /\ descProject[areq.id]
  /\ ~descCompose[areq.id].exists
  /\ prevRun.ran

-----------------------------------------------------------------------------
(* Claims about rejected requests *)

\* the request was rejected for its id or type, for a source URL that does
\* not parse or is not http(s), or for inline content that is not JSON
ValidationRejected ==
  /\ apc = "failed"
  /\ \/ result.failedAt = "request" /\ result.code \in {400, 500}
     \/ result.failedAt = "source" /\ result.code = 400

\* C22: a request rejected with a validation error has performed no
\* side-effecting step by the time the error is returned: no checkout
\* update, no directory or file creation, no generator, credential,
\* container or proxy action.
C22_RejectedWithoutSideEffects ==
  ValidationRejected =>
    /\ trace = <<>>
    /\ Snapshot = areq.start

-----------------------------------------------------------------------------
(* Claims about interleaved runs (SpecConc) *)

\* the runs that have returned ok so far
OkRuns == parked.oks \cup (IF apc = "done" /\ result.ok THEN {OkRun} ELSE {})

\* C23: for runs of different project ids (with different mount paths and
\* token env names) interleaved at their suspension points, the environment
\* file holds the token of each run that returned ok and the proxy
\* configuration holds the location block of each: no write of one run is
\* lost to the other.
C23_NoLostWrite ==
  \A r \in OkRuns :
    (\A q \in OkRuns \ {r} :
       q.id # r.id /\ q.mcpPath # r.mcpPath /\ q.tokenEnv # r.tokenEnv) =>
      /\ Held(envFile, r.tokenEnv) = r.token
      /\ HasLocLine(nginxSite, r.mcpPath)

\* two runs of different ids have both returned ok, the one that returned
\* last having waited for its fetch while the other ran
C23_Witness ==
  /\ apc = "done"
  /\ result.ok
  /\ result.token # JNull
  /\ TracePos("fetch") # 0
  /\ \E q \in parked.oks : q.id # areq.id /\ q.token # areq.token

-----------------------------------------------------------------------------
(* Claims about the conditional GET (SpecFetch) *)

\* the request of the current run has been sent
FetchSent == RunStarted /\ TracePos("fetch") # 0

\* the headers come from the stored meta, and only when it records the URL
\* being fetched
HeadersFromStoredMeta ==
  LET m == areq.start.meta[areq.id]
      same == m.exists /\ m.content.url = areq.url
  IN
  /\ areq.hdrs.inm # JUndef => same /\ areq.hdrs.inm = m.content.etag
  /\ areq.hdrs.ims # JUndef => same /\ areq.hdrs.ims = m.content.lastModified
  /\ (same /\ Truthy(m.content.etag)) => areq.hdrs.inm = m.content.etag
  /\ (same /\ Truthy(m.content.lastModified)) => areq.hdrs.ims = m.content.lastModified

\* C24: If-None-Match and If-Modified-Since are attached only when the
\* stored meta records the URL being fetched, and carry exactly the stored
\* etag and lastModified; after the source URL has changed no validator
\* stored before is sent, that is, a validator sent to a URL is one that
\* URL served.
C24_ValidatorsOfSameUrl ==
  FetchSent =>
    /\ HeadersFromStoredMeta
    /\ areq.hdrs.inm \in {JUndef, EtagOf(areq.url.v)}

\* the first half alone
C24_HeadersFromStoredMeta == FetchSent => HeadersFromStoredMeta

-----------------------------------------------------------------------------
(* Claims about the proxy steps *)

\* the units between two positions of a file are all of one server block
SameBlock(raw, i, j) ==
  LET lo == IF i < j THEN i ELSE j
      hi == IF i < j THEN j ELSE i
  IN \A k \in lo..hi : raw[k].kind \notin {"server", "close"}

\* the file with a unit put in before position p
InsertBefore(raw, p, unit) ==
  SubSeq(raw, 1, p - 1) \o <<unit>> \o SubSeq(raw, p, Len(raw))

\* the patcher of this run has written the file: what it wrote is the old
\* text with the location block of the run put in immediately before a
\* catch-all anchor
InsertedBeforeAnchor ==
  LET old == areq.start.nginxSite IN
  \E p \in 1..Len(old) :
    /\ old[p] = Anchor
    /\ nginxSite = InsertBefore(old, p, Loc(areq.mcpPath, areq.hostPort.v))

\* C25: when the route patcher of a run has inserted a location block, the
\* new text is the old text with the block put in immediately before the
\* catch-all anchor of the server block that contains the server_name
\* marker, and nothing else differs, whatever server blocks the file has.
C25_InsertedInMarkedBlock ==
  PatcherChanged =>
    LET old == areq.start.nginxSite
        mcpPos == IndexOfUnit(old, ServerName("mcp"), 1)
    IN \E p \in 1..Len(old) :
         /\ old[p] = Anchor
         /\ SameBlock(old, mcpPos, p)
         /\ nginxSite = InsertBefore(old, p, Loc(areq.mcpPath, areq.hostPort.v))

\* the part that does not depend on the server blocks
C25_InsertedBeforeSomeAnchor == PatcherChanged => InsertedBeforeAnchor

\* number of mappings 127.0.0.1:<port>:8080 in a composition descriptor
LoopbackMappings(raw) ==
  Cardinality({i \in 1..Len(raw) : raw[i].loopback /\ raw[i].inner = 8080})

\* C27: once a run has read the host port, the run goes on with that port
\* only if the composition descriptor has exactly one loopback mapping to
\* port 8080; with none or with several the run has failed at that step
\* and the proxy configuration is as it was when the run started.
C27_ExactlyOneMapping ==
  (RunStarted /\ TracePos("port") # 0) =>
    LET raw == descCompose[areq.id].content IN
    IF LoopbackMappings(raw) = 1
    THEN result.failedAt # "port" /\ areq.hostPort = readHostPortFromCompose(raw)
    ELSE /\ apc = "failed"
         /\ result.failedAt = "port"
         /\ TracePos("route") = 0
         /\ nginxSite = areq.start.nginxSite

\* the part about a descriptor with no loopback mapping
C27_NoMappingFails ==
  (RunStarted /\ TracePos("port") # 0 /\ LoopbackMappings(descCompose[areq.id].content) = 0) =>
    /\ apc = "failed"
    /\ result.failedAt = "port"
    /\ nginxSite = areq.start.nginxSite

\* C28: when a run has returned ok, the proxy configuration holds a
\* location block for the mount path of the run that passes to the host
\* port the run returned.
C28_OkRunIsRouted ==
  (apc = "done" /\ result.ok) =>
    \E i \in 1..Len(nginxSite) : nginxSite[i] = Loc(result.mcpPath, result.hostPort.v)

\* the same for the runs whose patcher wrote the file
C28_PatchedRunIsRouted ==
  (apc = "done" /\ result.ok /\ result.nginxChanged) =>
    \E i \in 1..Len(nginxSite) : nginxSite[i] = Loc(result.mcpPath, result.hostPort.v)

-----------------------------------------------------------------------------
(* Claims about the environment file *)

\* the lines of a text: what split gives, less the empty piece after a
\* final newline
TextLines(lines) ==
  IF lines[Len(lines)] = BlankLine THEN SubSeq(lines, 1, Len(lines) - 1) ELSE lines

\* the lines that are not a line of the name
OtherLines(lines, key) ==
  LET IsOther(l) == ~StartsWithKey(l, key) IN SelectSeq(TextLines(lines), IsOther)

\* the text ends in a newline, and in one only
EndsInOneNewline(lines) ==
  /\ Len(lines) >= 2
  /\ lines[Len(lines)] = BlankLine
  /\ lines[Len(lines) - 1] # BlankLine

\* the lines of other names are kept, in their order
OtherLinesKept(key, value) ==
  OtherLines(ensureEnvLine(envFile, key, value).lines, key) = OtherLines(EnvLines(envFile), key)

\* C26: whatever the environment file holds (no file, an empty text, a text
\* without a final newline, a text ending in blank lines), writing the line
\* of a name keeps every line of another name, in order, and gives a text
\* that ends in exactly one newline and holds the line written.
C26_EnvLineFrame ==
  \A key \in {TokenKey, OtherEnv}, n \in 1..2 :
    LET out == ensureEnvLine(envFile, key, Tok(n)).lines IN
    /\ OtherLinesKept(key, Tok(n))
    /\ EndsInOneNewline(out)
    /\ \E i \in 1..Len(out) : out[i] = KV(key, Tok(n))

\* the frame without the final newline
C26_OtherLinesKept ==
  \A key \in {TokenKey, OtherEnv}, n \in 1..2 : OtherLinesKept(key, Tok(n))

-----------------------------------------------------------------------------
(* Claims about the source meta *)

\* the meta of a project records a digest and a size (the code writes the
\* two fields together or neither)
MetaHasDigest(id) ==
  /\ meta[id].exists
  /\ meta[id].content.sha256 # JUndef

\* C29: between runs and at every step of a run, for each json project whose
\* source meta records a sha256 and a size, the payload file exists, the
\* sha256 is the digest of the payload text and the size is its length in
\* bytes; this holds after runs that fetched, got a 304, wrote inline
\* content, kept the payload, created the empty object, or failed.
C29_MetaMatchesPayload ==
  \A id \in FsIds :
    MetaHasDigest(id) =>
      /\ payload[id].exists
      /\ meta[id].content.sha256 = sha256Hex(payload[id].content)
      /\ meta[id].content.bytes = payload[id].content.bytes

\* a second run answered 304 over the payload an earlier run wrote from
\* other content than the empty object: the meta it rewrote still carries
\* the digest of that payload
C29_Witness ==
  /\ AgentIdle
  /\ prevRun.ran
  /\ TracePos("fetch") # 0
  /\ MetaHasDigest(areq.id)
  /\ meta[areq.id].content.status = 304
  /\ payload[areq.id].content # EmptyObjectText
  /\ meta[areq.id].content.sha256 = sha256Hex(payload[areq.id].content)

====
